---- MODULE Spec2Model ----
(***************************************************************************)
(* Camera Device Session Coordinator of server.py: the device lock, the    *)
(* retry loops, the MJPEG frame demuxer, the import and interval workers   *)
(* and the manual-capture cooldown, each as a state machine translated     *)
(* from the handlers of src/server.py.                                     *)
(***************************************************************************)
EXTENDS Integers, Sequences, FiniteSets, TLC

VARIABLES
    \* ---- device lock and request threads (SpecDevice)
    cam_lock,        \* holder of threading.Lock cam_lock, or Free
    pc,              \* position of each request thread
    sync_i,          \* loop index i of the card-sync get-file retry loop
    \* ---- retry loops against a scripted gateway (SpecRetry)
    gw_script,       \* what the device CLI answers to successive invocations
    retry_op,        \* which retried operation has run: none, capture, sync
    retry_res,       \* its result
    \* ---- live_stream.generate (SpecDemux)
    mj_stream,       \* every byte the movie-capture process writes to stdout
    mj_pos,          \* how many of them proc.stdout.read has returned
    mj_closed,       \* read returned b"": the byte source closed
    buf,             \* the generator's accumulating buffer
    frames,          \* the frames yielded so far, in order
    \* ---- import job (SpecImport)
    cam_files,       \* file indices on the camera card, as --list-files gives them
    imp_last_index,  \* import.json last_index, the persisted high-water mark
    import_state,    \* the import_state dict
    import_cancel,   \* the import_cancel event
    iw,              \* locals and position of each _import_worker thread
    \* ---- import jobs one after another (SpecImportJobs)
    import_jobs,     \* how many further jobs were started after a worker ended
    stop_at,         \* per worker: its transfers when a stop was accepted, or -1
    \* ---- intervalometer (SpecInterval)
    interval_state,  \* the interval_state dict
    ivw,             \* locals and position of each _interval_worker thread
    \* ---- interval stop requests (SpecIntervalStops)
    iv_stop_at,      \* per worker: its attempts when a stop was handled, or -1
    \* ---- manual-capture cooldown (SpecCooldown)
    now,             \* time.time(), in tenths of a second
    LAST_CAPTURE_TS, \* the global of that name, in tenths of a second
    cq,              \* locals and position of each /capture request
    stamps,          \* the values LAST_CAPTURE_TS was set to, in order
    starts,          \* the times _capture_one was entered by /capture, in order
    \* ---- live-view hold supervisor (SpecHold)
    lv_proc,         \* the global _liveview_proc: 0 for None, else a process
    lv_running,      \* liveview_state["running"]
    lv_alive,        \* the hold processes that are alive
    lv_spawned,      \* how many hold processes Popen has created
    lv_lock,         \* holder of _liveview_lock, or Free
    hq,              \* locals and position of each thread using the supervisor
    lv_last,         \* the last supervisor call that returned, and its process
    lv_row,          \* what the last start call found and did
    \* ---- MJPEG stream supervisor (SpecMjpeg)
    live_mjpeg_proc, \* the global _live_mjpeg_proc: 0 for None, else a process
    mjpeg_alive,     \* the movie-capture processes that are alive
    mjpeg_spawned,   \* how many movie-capture processes Popen has created
    sq,              \* locals and position of each /live_stream.mjpg generator
    stopq,           \* locals and position of the live_stream_stop request
    \* ---- preview.json and the card sync (SpecMarks)
    preview_conf,    \* the contents of preview.json
    card,            \* the camera's files, file i at position i
    pv,              \* locals and position of each card-sync run
    tg,              \* locals and position of the preview-config toggle
    \* ---- the state locks (SpecStateLocks)
    import_lock,     \* holder of threading.Lock import_lock, or Free
    interval_lock,   \* holder of threading.Lock interval_lock, or Free
    lk,              \* position of each thread that takes a state lock
    \* ---- stopping a hold or movie process (SpecStops)
    sg_handle,       \* the globals _liveview_proc and _live_mjpeg_proc: 0 for None
    sg_alive,        \* the processes that are alive
    sg_running,      \* liveview_state["running"]
    sg_log,          \* the signals sent, in order
    sg,              \* locals and position of each stopping thread
    \* ---- the other users of the device lock beside /capture (SpecCooldownPaths)
    oc,              \* position and device calls of the interval and import workers
    \* ---- job start requests and their answers (SpecStartRequests)
    sr,              \* per kind of job, how many start requests were accepted and rejected
    \* ---- the hold wait duration (SpecHoldWait)
    hw_hold_wait,    \* liveview_state["hold_wait"], in seconds
    hw_conf,         \* hold_wait in liveview.json, in seconds
    hw_proc,         \* --wait-event of the hold process held in _liveview_proc, 0 for None
    hw_alive,        \* the held process is alive
    hw_last,         \* the last start request and what became of it
    \* ---- the status cache (SpecStatusCache)
    last_status_cache,\* _last_status_cache[cache_key] of one cached field
    sc_last_read,    \* the value most recently read from the camera for the field
    scq              \* locals and position of each /api/status request

devVars == <<cam_lock, pc, sync_i>>
retryVars == <<gw_script, retry_op, retry_res>>
demuxVars == <<mj_stream, mj_pos, mj_closed, buf, frames>>
importVars == <<cam_files, imp_last_index, import_state, import_cancel, iw>>
jobsVars == <<import_jobs, stop_at>>
intervalVars == <<interval_state, ivw>>
stopsVars == <<iv_stop_at>>
cooldownVars == <<now, LAST_CAPTURE_TS, cq, stamps, starts>>
stopVars == <<sg_handle, sg_alive, sg_running, sg_log, sg>>
stateLockVars == <<import_lock, interval_lock, lk>>
marksVars == <<preview_conf, card, pv, tg>>
mjpegVars == <<live_mjpeg_proc, mjpeg_alive, mjpeg_spawned, sq, stopq>>
holdVars == <<lv_proc, lv_running, lv_alive, lv_spawned, lv_lock, hq, lv_last, lv_row>>
pathVars == <<oc>>
startVars == <<sr>>
waitVars == <<hw_hold_wait, hw_conf, hw_proc, hw_alive, hw_last>>
cacheVars == <<last_status_cache, sc_last_read, scq>>

vars == <<devVars, retryVars, demuxVars, importVars, jobsVars, intervalVars, stopsVars, cooldownVars, holdVars, mjpegVars, marksVars, stateLockVars, stopVars, cacheVars, waitVars, startVars, pathVars>>

notDevice == <<retryVars, demuxVars, importVars, jobsVars, intervalVars, stopsVars, cooldownVars, holdVars, mjpegVars, marksVars, stateLockVars, stopVars, cacheVars, waitVars, startVars, pathVars>>
notRetry == <<devVars, demuxVars, importVars, jobsVars, intervalVars, stopsVars, cooldownVars, holdVars, mjpegVars, marksVars, stateLockVars, stopVars, cacheVars, waitVars, startVars, pathVars>>
notDemux == <<devVars, retryVars, importVars, jobsVars, intervalVars, stopsVars, cooldownVars, holdVars, mjpegVars, marksVars, stateLockVars, stopVars, cacheVars, waitVars, startVars, pathVars>>
notImport == <<devVars, retryVars, demuxVars, jobsVars, intervalVars, stopsVars, cooldownVars, holdVars, mjpegVars, marksVars, stateLockVars, stopVars, cacheVars, waitVars, startVars, pathVars>>
notJobs == <<devVars, retryVars, demuxVars, importVars, intervalVars, stopsVars, cooldownVars, holdVars, mjpegVars, marksVars, stateLockVars, stopVars, cacheVars, waitVars, startVars, pathVars>>
notInterval == <<devVars, retryVars, demuxVars, importVars, jobsVars, stopsVars, cooldownVars, holdVars, mjpegVars, marksVars, stateLockVars, stopVars, cacheVars, waitVars, startVars, pathVars>>
notStops == <<devVars, retryVars, demuxVars, importVars, jobsVars, intervalVars, cooldownVars, holdVars, mjpegVars, marksVars, stateLockVars, stopVars, cacheVars, waitVars, startVars, pathVars>>
notCooldown == <<devVars, retryVars, demuxVars, importVars, jobsVars, intervalVars, stopsVars, holdVars, mjpegVars, marksVars, stateLockVars, stopVars, cacheVars, waitVars, startVars, pathVars>>
notHold == <<devVars, retryVars, demuxVars, importVars, jobsVars, intervalVars, stopsVars, cooldownVars, mjpegVars, marksVars, stateLockVars, stopVars, cacheVars, waitVars, startVars, pathVars>>
notMjpeg == <<devVars, retryVars, demuxVars, importVars, jobsVars, intervalVars, stopsVars, cooldownVars, holdVars, marksVars, stateLockVars, stopVars, cacheVars, waitVars, startVars, pathVars>>
notMarks == <<devVars, retryVars, demuxVars, importVars, jobsVars, intervalVars, stopsVars, cooldownVars, holdVars, mjpegVars, stateLockVars, stopVars, cacheVars, waitVars, startVars, pathVars>>
notStateLocks == <<devVars, retryVars, demuxVars, importVars, jobsVars, intervalVars, stopsVars, cooldownVars, holdVars, mjpegVars, marksVars, stopVars, cacheVars, waitVars, startVars, pathVars>>
notStop == <<devVars, retryVars, demuxVars, importVars, jobsVars, intervalVars, stopsVars, cooldownVars, holdVars, mjpegVars, marksVars, stateLockVars, cacheVars, waitVars, startVars, pathVars>>
notCache == <<devVars, retryVars, demuxVars, importVars, jobsVars, intervalVars, stopsVars, cooldownVars, holdVars, mjpegVars, marksVars, stateLockVars, stopVars, waitVars, startVars, pathVars>>
notWait == <<devVars, retryVars, demuxVars, importVars, jobsVars, intervalVars, stopsVars, cooldownVars, holdVars, mjpegVars, marksVars, stateLockVars, stopVars, cacheVars, startVars, pathVars>>
notStarts == <<devVars, retryVars, demuxVars, importVars, jobsVars, intervalVars, stopsVars, cooldownVars, holdVars, mjpegVars, marksVars, stateLockVars, stopVars, cacheVars, waitVars, pathVars>>
notPaths == <<devVars, retryVars, demuxVars, importVars, jobsVars, intervalVars, stopsVars, cooldownVars, holdVars, mjpegVars, marksVars, stateLockVars, stopVars, cacheVars, waitVars, startVars>>

Min(a, b) == IF a < b THEN a ELSE b
Max(a, b) == IF a > b THEN a ELSE b

----------------------------------------------------------------------------
(* Device lock and the request threads that touch the camera.               *)

Free == "free"

\* One thread per kind of request that issues gphoto2 calls.
Threads == {"capture", "status", "config", "sync", "import", "interval", "frame", "stream"}

\* Positions at which a gphoto2 device call of the thread is in flight.
DeviceCallPcs ==
    { "cap_capture",                       \* --capture-image-and-download
      "st_getconfig", "st_storage",        \* --get-config, --storage-info
      "cfg_set", "cfg_get",                \* --set-config, --get-config
      "sync_list", "sync_get",             \* --list-files, --get-file
      "imp_list", "imp_get",               \* --list-files, --get-file
      "int_capture",                       \* --capture-image-and-download
      "frame_preview",                     \* --capture-preview
      "stream_spawn", "stream_off" }       \* --capture-movie, --set-config viewfinder=0

InFlight == {t \in Threads : pc[t] \in DeviceCallPcs}

\* with cam_lock: blocks until the lock is free, then takes it.
Acquire(t) == cam_lock = Free /\ cam_lock' = t

\* leaving a with cam_lock: block releases the lock.
Release(t) == cam_lock' = Free

Goto(t, to) == pc' = [pc EXCEPT ![t] = to]

At(t, loc) == pc[t] = loc

DeviceIdle ==
    /\ cam_lock = Free
    /\ pc = [t \in Threads |-> "idle"]
    /\ sync_i = 0

\* capture(): the whole handler body up to the device call runs inside
\* with cam_lock (cooldown, stop of the hold, then _capture_one).
capture_enter ==
    /\ At("capture", "idle")
    /\ Acquire("capture")
    /\ Goto("capture", "cap_locked")
    /\ UNCHANGED <<sync_i, notDevice>>

capture_call ==
    /\ At("capture", "cap_locked")
    /\ Goto("capture", "cap_capture")
    /\ UNCHANGED <<cam_lock, sync_i, notDevice>>

capture_return ==
    /\ At("capture", "cap_capture")
    /\ Release("capture")
    /\ Goto("capture", "idle")
    /\ UNCHANGED <<sync_i, notDevice>>

\* api_status(): _gp_first_value -> _gp_get_config_safe, each call inside
\* its own with cam_lock; then _storage_info, also inside with cam_lock.
status_getconfig ==
    /\ At("status", "idle")
    /\ Acquire("status")
    /\ Goto("status", "st_getconfig")
    /\ UNCHANGED <<sync_i, notDevice>>

status_getconfig_done ==
    /\ At("status", "st_getconfig")
    /\ Release("status")
    /\ \E to \in {"idle", "st_wait_storage"} : Goto("status", to)
    /\ UNCHANGED <<sync_i, notDevice>>

status_storage ==
    /\ At("status", "st_wait_storage")
    /\ Acquire("status")
    /\ Goto("status", "st_storage")
    /\ UNCHANGED <<sync_i, notDevice>>

status_storage_done ==
    /\ At("status", "st_storage")
    /\ Release("status")
    /\ Goto("status", "idle")
    /\ UNCHANGED <<sync_i, notDevice>>

\* cfg_set(): with cam_lock: _gp_set_value_or_index(key, val).
config_set ==
    /\ At("config", "idle")
    /\ Acquire("config")
    /\ Goto("config", "cfg_set")
    /\ UNCHANGED <<sync_i, notDevice>>

\* --set-config accepted: the with block ends, then _gp_get_config_safe
\* reads the value back.
config_set_ok ==
    /\ At("config", "cfg_set")
    /\ Release("config")
    /\ Goto("config", "cfg_wait_get")
    /\ UNCHANGED <<sync_i, notDevice>>

\* --set-config rejected: the except branch calls _gp_get_config_safe, whose
\* with cam_lock waits for the lock this thread still holds; threading.Lock
\* is not reentrant, so the thread stays here with the lock held.
config_set_rejected ==
    /\ At("config", "cfg_set")
    /\ Goto("config", "cfg_fallback_blocked")
    /\ UNCHANGED <<cam_lock, sync_i, notDevice>>

config_get ==
    /\ At("config", "cfg_wait_get")
    /\ Acquire("config")
    /\ Goto("config", "cfg_get")
    /\ UNCHANGED <<sync_i, notDevice>>

config_get_done ==
    /\ At("config", "cfg_get")
    /\ Release("config")
    /\ Goto("config", "idle")
    /\ UNCHANGED <<sync_i, notDevice>>

\* _pull_latest_from_camera_for_preview(): _list_camera_files inside
\* with cam_lock, then the get-file loop, each attempt inside with cam_lock.
sync_list ==
    /\ At("sync", "idle")
    /\ Acquire("sync")
    /\ Goto("sync", "sync_list")
    /\ UNCHANGED <<sync_i, notDevice>>

sync_list_done ==
    /\ At("sync", "sync_list")
    /\ Release("sync")
    /\ \E to \in {"idle", "sync_wait_get"} : Goto("sync", to)
    /\ sync_i' = 0
    /\ UNCHANGED notDevice

sync_get ==
    /\ At("sync", "sync_wait_get")
    /\ Acquire("sync")
    /\ Goto("sync", "sync_get")
    /\ UNCHANGED <<sync_i, notDevice>>

\* get-file succeeded, or failed with a non-transient error or on the last
\* attempt: the function returns.
sync_get_done ==
    /\ At("sync", "sync_get")
    /\ Release("sync")
    /\ Goto("sync", "idle")
    /\ sync_i' = 0
    /\ UNCHANGED notDevice

\* get-file failed with a transient error and i < attempts - 1: the exception
\* leaves the with block (lock released), then time.sleep(delay), then retry.
sync_get_transient ==
    /\ At("sync", "sync_get")
    /\ sync_i < 2
    /\ Release("sync")
    /\ Goto("sync", "sync_wait_get")
    /\ sync_i' = sync_i + 1
    /\ UNCHANGED notDevice

\* _import_worker(): _list_camera_files inside with cam_lock ...
import_list ==
    /\ At("import", "idle")
    /\ Acquire("import")
    /\ Goto("import", "imp_list")
    /\ UNCHANGED <<sync_i, notDevice>>

import_list_done ==
    /\ At("import", "imp_list")
    /\ Release("import")
    /\ \E to \in {"idle", "imp_loop"} : Goto("import", to)
    /\ UNCHANGED <<sync_i, notDevice>>

\* ... then, per selected file, subprocess.check_output(gphoto2 --get-file)
\* with only import_lock taken around the counters: cam_lock is not taken.
import_get ==
    /\ At("import", "imp_loop")
    /\ Goto("import", "imp_get")
    /\ UNCHANGED <<cam_lock, sync_i, notDevice>>

import_get_done ==
    /\ At("import", "imp_get")
    /\ \E to \in {"idle", "imp_loop"} : Goto("import", to)
    /\ UNCHANGED <<cam_lock, sync_i, notDevice>>

\* _interval_worker(): with cam_lock: _capture_one().
interval_capture ==
    /\ At("interval", "idle")
    /\ Acquire("interval")
    /\ Goto("interval", "int_capture")
    /\ UNCHANGED <<sync_i, notDevice>>

interval_capture_done ==
    /\ At("interval", "int_capture")
    /\ Release("interval")
    /\ Goto("interval", "idle")
    /\ UNCHANGED <<sync_i, notDevice>>

\* live_frame(): with cam_lock: gphoto2 --capture-preview --stdout.
frame_preview ==
    /\ At("frame", "idle")
    /\ Acquire("frame")
    /\ Goto("frame", "frame_preview")
    /\ UNCHANGED <<sync_i, notDevice>>

frame_preview_done ==
    /\ At("frame", "frame_preview")
    /\ Release("frame")
    /\ Goto("frame", "idle")
    /\ UNCHANGED <<sync_i, notDevice>>

\* live_stream.generate(): subprocess.Popen(gphoto2 --capture-movie) with no
\* lock taken; the generator then reads the pipe until it closes.
stream_spawn ==
    /\ At("stream", "idle")
    /\ Goto("stream", "stream_spawn")
    /\ UNCHANGED <<cam_lock, sync_i, notDevice>>

stream_started ==
    /\ At("stream", "stream_spawn")
    /\ Goto("stream", "stream_reading")
    /\ UNCHANGED <<cam_lock, sync_i, notDevice>>

\* finally: terminate the process, then _set_liveview(False), again with no
\* lock taken.
stream_closed ==
    /\ At("stream", "stream_reading")
    /\ Goto("stream", "stream_off")
    /\ UNCHANGED <<cam_lock, sync_i, notDevice>>

stream_off_done ==
    /\ At("stream", "stream_off")
    /\ Goto("stream", "idle")
    /\ UNCHANGED <<cam_lock, sync_i, notDevice>>

NextDevice ==
    \/ capture_enter \/ capture_call \/ capture_return
    \/ status_getconfig \/ status_getconfig_done
    \/ status_storage \/ status_storage_done
    \/ config_set \/ config_set_ok \/ config_set_rejected
    \/ config_get \/ config_get_done
    \/ sync_list \/ sync_list_done \/ sync_get \/ sync_get_done
    \/ sync_get_transient
    \/ import_list \/ import_list_done \/ import_get \/ import_get_done
    \/ interval_capture \/ interval_capture_done
    \/ frame_preview \/ frame_preview_done
    \/ stream_spawn \/ stream_started \/ stream_closed \/ stream_off_done

----------------------------------------------------------------------------
(* Retry loops of _capture_one and _pull_latest_from_camera_for_preview,    *)
(* run against a scripted gateway.                                          *)

MaxScript == 3

\* Output of a failed gphoto2 invocation (CalledProcessError.output), as the
\* words of the message.
ErrOutput ==
    [ usb_claim     |-> <<"Could", "not", "claim", "the", "USB", "device">>,
      resource_busy |-> <<"Device", "or", "resource", "busy">>,
      ptp_busy      |-> <<"PTP", "Device", "Busy">>,
      ptp_io        |-> <<"PTP", "I/O", "Error">>,
      io_error      |-> <<"I/O", "error">>,
      camera_busy   |-> <<"Camera", "is", "busy">>,
      no_such_file  |-> <<"File", "not", "found">>,
      bad_config    |-> <<"bad", "config", "key">> ]

Errors == DOMAIN ErrOutput

OK == "ok"

Outcomes == {OK} \cup Errors

\* The gateway scripts: what successive invocations answer; past the end of
\* the script every invocation succeeds.
Scripts == UNION {[1..n -> Outcomes] : n \in 0..MaxScript}

GatewayCall(script, k) == IF k <= Len(script) THEN script[k] ELSE OK

\* str.lower() on one word.
LowerWord(w) ==
    CASE w = "Could"  -> "could"
      [] w = "USB"    -> "usb"
      [] w = "Device" -> "device"
      [] w = "PTP"    -> "ptp"
      [] w = "I/O"    -> "i/o"
      [] w = "Error"  -> "error"
      [] w = "Busy"   -> "busy"
      [] w = "Camera" -> "camera"
      [] w = "File"   -> "file"
      [] OTHER        -> w

lower(txt) == [k \in 1..Len(txt) |-> LowerWord(txt[k])]

\* kw in txt
Contains(txt, kw) ==
    \E k \in 1..(Len(txt) - Len(kw) + 1) : SubSeq(txt, k, k + Len(kw) - 1) = kw

capture_keywords ==
    { <<"could", "not", "claim", "the", "usb", "device">>,
      <<"device", "or", "resource", "busy">>,
      <<"device", "busy">>,
      <<"ptp", "i/o", "error">>,
      <<"i/o", "error">>,
      <<"busy">> }

preview_keywords ==
    { <<"could", "not", "claim", "the", "usb", "device">>,
      <<"device", "or", "resource", "busy">>,
      <<"device", "busy">>,
      <<"ptp", "i/o", "error">> }

\* Mutations of the transient test: the message is not lowercased; every
\* failure counts as transient.
capture_transient_nolower(e) ==
    \E kw \in capture_keywords : Contains(ErrOutput[e], kw)

capture_transient_always(e) == TRUE

\* _capture_one: transient = any(kw in err_txt for kw in [...])
capture_transient(e) ==
    \E kw \in capture_keywords : Contains(lower(ErrOutput[e]), kw)

\* _pull_latest_from_camera_for_preview: transient = any(kw in msg for kw in [...])
preview_transient(e) ==
    \E kw \in preview_keywords : Contains(lower(ErrOutput[e]), kw)

capture_attempts == 2
preview_attempts == 3

NoError == "none"

\* _capture_one, iteration i of for i in range(attempts): one invocation of
\* gphoto2 --capture-image-and-download; a transient failure with attempts
\* left sleeps and retries, any other failure is re-raised and caught by the
\* outer except, which records last_error and returns ok = False.
RECURSIVE capture_loop(_, _)
capture_loop(script, i) ==
    LET out == GatewayCall(script, i + 1) IN
    IF out = OK
    THEN [ok |-> TRUE, calls |-> i + 1, last_error |-> NoError, ret |-> "ok"]
    ELSE IF capture_transient(out) /\ i < capture_attempts - 1
         THEN capture_loop(script, i + 1)
         ELSE [ok |-> FALSE, calls |-> i + 1, last_error |-> out, ret |-> "failure"]

capture_one(script) == capture_loop(script, 0)

\* _pull_latest_from_camera_for_preview, iteration i of the get-file loop:
\* success saves the high-water mark and returns; a transient failure with
\* attempts left sleeps and retries; otherwise break. The function has no
\* return value on any path.
RECURSIVE pull_loop(_, _)
pull_loop(script, i) ==
    LET out == GatewayCall(script, i + 1) IN
    IF out = OK
    THEN [ok |-> TRUE, calls |-> i + 1, last_error |-> NoError, ret |-> "none"]
    ELSE IF preview_transient(out) /\ i < preview_attempts - 1
         THEN pull_loop(script, i + 1)
         ELSE [ok |-> FALSE, calls |-> i + 1, last_error |-> NoError, ret |-> "none"]

pull_get_file(script) == pull_loop(script, 0)

\* _import_worker, one item of the loop: a single invocation of gphoto2
\* --get-file --skip-existing; success counts the file as imported or
\* skipped, CalledProcessError counts it as an error and records the output.
import_get_file(script) ==
    LET out == GatewayCall(script, 1) IN
    IF out = OK
    THEN [ok |-> TRUE, calls |-> 1, last_error |-> NoError, ret |-> "counted"]
    ELSE [ok |-> FALSE, calls |-> 1, last_error |-> out, ret |-> "error"]

NoResult == [ok |-> FALSE, calls |-> 0, last_error |-> NoError, ret |-> "none"]

RetryIdle ==
    /\ gw_script = << >>
    /\ retry_op = "none"
    /\ retry_res = NoResult

retry_capture ==
    /\ retry_op = "none"
    /\ retry_op' = "capture"
    /\ retry_res' = capture_one(gw_script)
    /\ UNCHANGED <<gw_script, notRetry>>

retry_sync ==
    /\ retry_op = "none"
    /\ retry_op' = "sync"
    /\ retry_res' = pull_get_file(gw_script)
    /\ UNCHANGED <<gw_script, notRetry>>

retry_import ==
    /\ retry_op = "none"
    /\ retry_op' = "import"
    /\ retry_res' = import_get_file(gw_script)
    /\ UNCHANGED <<gw_script, notRetry>>

NextRetry == retry_capture \/ retry_sync \/ retry_import

----------------------------------------------------------------------------
(* MJPEG frame demuxer: the read loop of live_stream.generate.              *)

MaxStream == 8

FF == 255
D8 == 216
D9 == 217
XX == 65

Bytes == {FF, D8, D9, XX}

SOI == <<FF, D8>>
EOI == <<FF, D9>>

Streams == UNION {[1..n -> Bytes] : n \in 0..MaxStream}

\* bytes.find(pat, from): the lowest 0-based index >= from at which pat
\* occurs in b, or -1.
find(b, pat, from) ==
    LET hits == {k \in from..(Len(b) - Len(pat)) :
                    SubSeq(b, k + 1, k + Len(pat)) = pat}
    IN IF hits = {} THEN -1 ELSE CHOOSE k \in hits : \A h \in hits : k <= h

\* Mutation: the frame is cut one byte short, buf[start:end + 1].
slice_short(b, lo, hi) == SubSeq(b, lo + 1, Min(hi, Len(b)) - 1)

\* b[lo:hi] and b[lo:] for 0 <= lo
slice(b, lo, hi) == SubSeq(b, lo + 1, Min(hi, Len(b)))
slice_from(b, lo) == SubSeq(b, lo + 1, Len(b))

\* Mutation: nothing is kept when no SOI is found, buf = b"".
keep_nothing(b) == << >>

\* b[-3:]
keep_tail(b) == SubSeq(b, Max(1, Len(b) - 2), Len(b))

\* The inner while True loop: frames are cut from the front of the buffer
\* until no SOI is found (keep buf[-3:]) or no EOI follows it (keep
\* buf[start:]).
RECURSIVE drain(_, _)
drain(b, out) ==
    LET start == find(b, SOI, 0) IN
    IF start = -1 THEN [buf |-> keep_tail(b), frames |-> out]
    ELSE LET end == find(b, EOI, start + 2) IN
         IF end = -1 THEN [buf |-> slice_from(b, start), frames |-> out]
         ELSE drain(slice_from(b, end + 2), Append(out, slice(b, start, end + 2)))

DemuxIdle ==
    /\ mj_stream = << >>
    /\ mj_pos = 0
    /\ mj_closed = FALSE
    /\ buf = << >>
    /\ frames = << >>

\* chunk = proc.stdout.read(4096) returned n >= 1 bytes; buf += chunk; the
\* inner loop yields every complete frame.
stream_read ==
    /\ ~mj_closed
    /\ \E n \in 1..(Len(mj_stream) - mj_pos) :
          LET chunk == SubSeq(mj_stream, mj_pos + 1, mj_pos + n)
              r == drain(buf \o chunk, frames)
          IN /\ mj_pos' = mj_pos + n
             /\ buf' = r.buf
             /\ frames' = r.frames
    /\ UNCHANGED <<mj_stream, mj_closed, notDemux>>

\* read returned b"" (the process exited): break; whatever is left in buf is
\* dropped with the generator.
stream_eof ==
    /\ ~mj_closed
    /\ mj_pos = Len(mj_stream)
    /\ mj_closed' = TRUE
    /\ buf' = << >>
    /\ UNCHANGED <<mj_stream, mj_pos, frames, notDemux>>

NextDemux == stream_read \/ stream_eof

----------------------------------------------------------------------------
(* Import job: import_start, import_stop and _import_worker.                *)

MaxIndex == 4

\* Worker threads import_start can spawn in one behaviour.
ImportWorkers == {"w1", "w2"}

\* A camera listing: the file indices of gphoto2 --list-files, in order.
RECURSIVE Ascending(_)
Ascending(S) ==
    IF S = {} THEN << >>
    ELSE LET m == CHOOSE x \in S : \A y \in S : x <= y
         IN <<m>> \o Ascending(S \ {m})

Listings == {Ascending(S) : S \in SUBSET (1..MaxIndex)}

NoWorker ==
    [pc |-> "unborn", mode |-> "new", last_idx |-> 0, files |-> << >>,
     selected |-> << >>, k |-> 0, max_idx |-> 0, cancelled |-> FALSE,
     outcome |-> "none", transfers |-> 0, saved |-> "no", undisturbed |-> TRUE]

ImportStateInit ==
    [running |-> FALSE, mode |-> "none", total |-> 0, done |-> 0,
     imported |-> 0, skipped |-> 0, errors |-> 0, current |-> 0,
     finished |-> FALSE, last_error |-> "none"]

ImportIdle ==
    /\ cam_files = << >>
    /\ imp_last_index = 0
    /\ import_state = ImportStateInit
    /\ import_cancel = FALSE
    /\ iw = [w \in ImportWorkers |-> NoWorker]

Active(w) == iw[w].pc \notin {"unborn", "done"}

\* Of the worker records, transfers counts the get-file invocations the
\* worker has made, saved tells what became of its config write, and
\* undisturbed tells that no other worker was active when it started and
\* that no start request has been accepted since.

\* Mutation: the selection keeps index >= last_idx.
select_new_inclusive(files, last_idx) ==
    SelectSeq(files, LAMBDA f : f >= last_idx)

\* selected = [f for f in files if f["index"] > last_idx]
select_new(files, last_idx) == SelectSeq(files, LAMBDA f : f > last_idx)

\* import_start(): under import_lock, refused while running; otherwise the
\* state is reset, import_cancel cleared and the worker thread started.
import_accept(w) ==
    /\ ~import_state.running
    /\ \E mode \in {"new", "all"} :
          /\ import_state' = [ImportStateInit EXCEPT !.running = TRUE, !.mode = mode]
          /\ iw' = [v \in ImportWorkers |->
                      IF v = w
                      THEN [NoWorker EXCEPT !.pc = "load", !.mode = mode,
                                            !.undisturbed = \A u \in ImportWorkers : ~Active(u)]
                      ELSE [iw[v] EXCEPT !.undisturbed = FALSE]]
    /\ import_cancel' = FALSE

import_start(w) ==
    /\ iw[w].pc = "unborn"
    /\ import_accept(w)
    /\ UNCHANGED <<cam_files, imp_last_index, notImport>>

\* import_stop(): under import_lock, a no-op unless running; sets the
\* cancellation event and returns.
import_cancel_set ==
    /\ import_state.running
    /\ import_cancel' = TRUE
    /\ import_state' = [import_state EXCEPT !.last_error = "cancel requested"]

import_stop ==
    /\ import_cancel_set
    /\ UNCHANGED <<cam_files, imp_last_index, iw, notImport>>

\* cfg = _load_import_conf(); last_idx = cfg["last_index"]
iw_load(w) ==
    /\ iw[w].pc = "load"
    /\ iw' = [iw EXCEPT ![w].pc = "list", ![w].last_idx = imp_last_index]
    /\ UNCHANGED <<cam_files, imp_last_index, import_state, import_cancel, notImport>>

\* files = _list_camera_files(): the listing, or [] when gphoto2 fails. No
\* files: the job ends with an error. Otherwise the selection is made and
\* the counters are reset.
iw_list(w) ==
    /\ iw[w].pc = "list"
    /\ \E files \in {cam_files, << >>} :
          IF files = << >>
          THEN /\ import_state' = [import_state EXCEPT
                     !.running = FALSE, !.total = 0,
                     !.last_error = "No files listed by gphoto2", !.finished = TRUE]
               /\ iw' = [iw EXCEPT ![w].pc = "finally", ![w].files = files]
          ELSE LET selected == IF iw[w].mode = "new"
                               THEN select_new(files, iw[w].last_idx)
                               ELSE files
               IN /\ import_state' = [import_state EXCEPT
                        !.total = Len(selected), !.done = 0, !.imported = 0,
                        !.skipped = 0, !.errors = 0, !.current = 0,
                        !.last_error = "none"]
                  /\ iw' = [iw EXCEPT ![w].pc = "selected", ![w].files = files,
                                      ![w].selected = selected]
    /\ UNCHANGED <<cam_files, imp_last_index, import_cancel, notImport>>

\* if not selected: running = False, return; else max_idx = last_idx and the
\* loop begins.
iw_selected(w) ==
    /\ iw[w].pc = "selected"
    /\ IF iw[w].selected = << >>
       THEN /\ import_state' = [import_state EXCEPT !.running = FALSE, !.finished = TRUE]
            /\ iw' = [iw EXCEPT ![w].pc = "finally"]
       ELSE /\ iw' = [iw EXCEPT ![w].pc = "loop", ![w].max_idx = iw[w].last_idx]
            /\ UNCHANGED import_state
    /\ UNCHANGED <<cam_files, imp_last_index, import_cancel, notImport>>

\* Head of for item in selected: the loop ends after the last item; the
\* cancel checks (import_cancel set, or running cleared) set cancelled and
\* break; otherwise current is set and the transfer follows.
iw_loop(w) ==
    /\ iw[w].pc = "loop"
    /\ IF iw[w].k = Len(iw[w].selected)
       THEN /\ iw' = [iw EXCEPT ![w].pc = "save"]
            /\ UNCHANGED import_state
       ELSE IF import_cancel \/ ~import_state.running
            THEN /\ iw' = [iw EXCEPT ![w].pc = "save", ![w].cancelled = TRUE]
                 /\ UNCHANGED import_state
            ELSE /\ iw' = [iw EXCEPT ![w].pc = "get"]
                 /\ import_state' =
                       [import_state EXCEPT !.current = iw[w].selected[iw[w].k + 1]]
    /\ UNCHANGED <<cam_files, imp_last_index, import_cancel, notImport>>

\* gphoto2 --get-file idx --skip-existing: a new file was written, the file
\* was already there, or the call failed.
iw_get(w) ==
    /\ iw[w].pc = "get"
    /\ \E outcome \in {"imported", "skipped", "error"} :
          iw' = [iw EXCEPT ![w].pc = "count", ![w].outcome = outcome,
                           ![w].transfers = iw[w].transfers + 1]
    /\ UNCHANGED <<cam_files, imp_last_index, import_state, import_cancel, notImport>>

\* Mutation: a failed transfer ends the loop.
iw_count_error_aborts(w) ==
    /\ iw[w].pc = "count"
    /\ import_state' =
          CASE iw[w].outcome = "imported" ->
                  [import_state EXCEPT !.imported = import_state.imported + 1]
            [] iw[w].outcome = "skipped" ->
                  [import_state EXCEPT !.skipped = import_state.skipped + 1]
            [] OTHER ->
                  [import_state EXCEPT !.errors = import_state.errors + 1,
                                       !.done = import_state.done + 1,
                                       !.last_error = "transfer failed"]
    /\ iw' = [iw EXCEPT ![w].pc = IF iw[w].outcome = "error" THEN "save" ELSE "done_incr",
                        ![w].max_idx = IF iw[w].outcome # "error"
                                          /\ iw[w].selected[iw[w].k + 1] > iw[w].max_idx
                                       THEN iw[w].selected[iw[w].k + 1] ELSE iw[w].max_idx]
    /\ UNCHANGED <<cam_files, imp_last_index, import_cancel, notImport>>

\* The counter of the outcome is incremented; a successful transfer raises
\* max_idx to idx.
iw_count(w) ==
    /\ iw[w].pc = "count"
    /\ LET idx == iw[w].selected[iw[w].k + 1] IN
       /\ import_state' =
             CASE iw[w].outcome = "imported" ->
                     [import_state EXCEPT !.imported = import_state.imported + 1]
               [] iw[w].outcome = "skipped" ->
                     [import_state EXCEPT !.skipped = import_state.skipped + 1]
               [] OTHER ->
                     [import_state EXCEPT !.errors = import_state.errors + 1,
                                          !.last_error = "transfer failed"]
       /\ iw' = [iw EXCEPT ![w].pc = "done_incr",
                           ![w].max_idx = IF iw[w].outcome # "error" /\ idx > iw[w].max_idx
                                          THEN idx ELSE iw[w].max_idx]
    /\ UNCHANGED <<cam_files, imp_last_index, import_cancel, notImport>>

\* finally: import_state["done"] += 1
iw_done_incr(w) ==
    /\ iw[w].pc = "done_incr"
    /\ import_state' = [import_state EXCEPT !.done = import_state.done + 1]
    /\ iw' = [iw EXCEPT ![w].pc = "loop", ![w].k = iw[w].k + 1]
    /\ UNCHANGED <<cam_files, imp_last_index, import_cancel, notImport>>

\* Mutation: the high-water mark is saved after a cancelled run too.
iw_save_when_cancelled(w) ==
    /\ iw[w].pc = "save"
    /\ IF iw[w].max_idx > iw[w].last_idx
       THEN \E ok \in BOOLEAN :
               /\ imp_last_index' = IF ok THEN iw[w].max_idx ELSE imp_last_index
               /\ iw' = [iw EXCEPT ![w].pc = "finally",
                                   ![w].saved = IF ok THEN "yes" ELSE "failed"]
       ELSE /\ iw' = [iw EXCEPT ![w].pc = "finally"]
            /\ UNCHANGED imp_last_index
    /\ UNCHANGED <<cam_files, import_state, import_cancel, notImport>>

\* if max_idx > last_idx and not cancelled: cfg["last_index"] = max_idx;
\* _save_import_conf(cfg), which writes the file or fails and returns False.
iw_save(w) ==
    /\ iw[w].pc = "save"
    /\ IF iw[w].max_idx > iw[w].last_idx /\ ~iw[w].cancelled
       THEN \E ok \in BOOLEAN :
               /\ imp_last_index' = IF ok THEN iw[w].max_idx ELSE imp_last_index
               /\ iw' = [iw EXCEPT ![w].pc = "finally",
                                   ![w].saved = IF ok THEN "yes" ELSE "failed"]
       ELSE /\ iw' = [iw EXCEPT ![w].pc = "finally"]
            /\ UNCHANGED imp_last_index
    /\ UNCHANGED <<cam_files, import_state, import_cancel, notImport>>

\* The outer finally: running = False, current = None, finished_at set, and
\* "cancelled by user" when cancelled with no error recorded.
iw_finally(w) ==
    /\ iw[w].pc = "finally"
    /\ import_state' =
          [import_state EXCEPT
              !.running = FALSE, !.current = 0, !.finished = TRUE,
              !.last_error = IF iw[w].cancelled /\ import_state.last_error = "none"
                             THEN "cancelled by user" ELSE import_state.last_error]
    /\ iw' = [iw EXCEPT ![w].pc = "done"]
    /\ UNCHANGED <<cam_files, imp_last_index, import_cancel, notImport>>

NextImport ==
    \/ \E w \in ImportWorkers : import_start(w)
    \/ import_stop
    \/ \E w \in ImportWorkers : iw_load(w)
    \/ \E w \in ImportWorkers : iw_list(w)
    \/ \E w \in ImportWorkers : iw_selected(w)
    \/ \E w \in ImportWorkers : iw_loop(w)
    \/ \E w \in ImportWorkers : iw_get(w)
    \/ \E w \in ImportWorkers : iw_count(w)
    \/ \E w \in ImportWorkers : iw_done_incr(w)
    \/ \E w \in ImportWorkers : iw_save(w)
    \/ \E w \in ImportWorkers : iw_finally(w)

----------------------------------------------------------------------------
(* Import jobs one after another: a further job is started once the thread  *)
(* of an earlier one has ended, and stop requests are noted.                *)

MaxAgain == 1

\* Files on the card of these jobs.
JobFiles == 2

JobsIdle ==
    /\ import_jobs = 0
    /\ stop_at = [w \in ImportWorkers |-> -1]

notImportJobs ==
    <<devVars, retryVars, demuxVars, intervalVars, stopsVars, cooldownVars, holdVars, mjpegVars, marksVars, stateLockVars, stopVars, cacheVars, waitVars, startVars, pathVars>>

\* import_start(), the worker being the thread of a further job.
import_start_again(w) ==
    /\ iw[w].pc = "done"
    /\ import_jobs < MaxAgain
    /\ import_accept(w)
    /\ import_jobs' = import_jobs + 1
    /\ stop_at' = [stop_at EXCEPT ![w] = -1]
    /\ UNCHANGED <<cam_files, imp_last_index, notImportJobs>>

\* import_stop(), noting for each active worker how many transfers it has
\* begun by now.
import_stop_noted ==
    /\ import_cancel_set
    /\ stop_at' = [w \in ImportWorkers |->
                     IF Active(w) /\ stop_at[w] = -1 THEN iw[w].transfers ELSE stop_at[w]]
    /\ UNCHANGED <<cam_files, imp_last_index, iw, import_jobs, notImportJobs>>

NextImportJobs ==
    \/ \E w \in ImportWorkers : import_start(w)
    \/ \E w \in ImportWorkers : import_start_again(w)
    \/ import_stop_noted
    \/ \E w \in ImportWorkers : iw_load(w)
    \/ \E w \in ImportWorkers : iw_list(w)
    \/ \E w \in ImportWorkers : iw_selected(w)
    \/ \E w \in ImportWorkers : iw_loop(w)
    \/ \E w \in ImportWorkers : iw_get(w)
    \/ \E w \in ImportWorkers : iw_count(w)
    \/ \E w \in ImportWorkers : iw_done_incr(w)
    \/ \E w \in ImportWorkers : iw_save(w)
    \/ \E w \in ImportWorkers : iw_finally(w)

----------------------------------------------------------------------------
(* One import job with the exceptions its worker can raise inside the try  *)
(* block of _import_worker.                                                 *)

\* The one worker started here.
SoloImport == {"w1"}

\* An exception other than CalledProcessError inside the try block:
\* int(cfg.get("last_index")) on a value that is no number, os.makedirs of
\* the target directory, or subprocess.check_output itself (OSError, a
\* decoding error). Raised in the transfer it passes the inner finally
\* first: done += 1.
iw_crash(w) ==
    /\ \/ iw[w].pc \in {"load", "get"}
       \/ iw[w].pc = "selected" /\ iw[w].selected # << >>
    /\ import_state' =
          [import_state EXCEPT
              !.done = IF iw[w].pc = "get" THEN import_state.done + 1
                       ELSE import_state.done]
    /\ iw' = [iw EXCEPT ![w].pc = "raised", ![w].outcome = "crashed"]
    /\ UNCHANGED <<cam_files, imp_last_index, import_cancel, notImport>>

\* Mutation: the exception is swallowed without a record.
iw_except_unrecorded(w) ==
    /\ iw[w].pc = "raised"
    /\ iw' = [iw EXCEPT ![w].pc = "finally"]
    /\ UNCHANGED <<cam_files, imp_last_index, import_state, import_cancel, notImport>>

\* except Exception as e: last_error = f"worker crashed: {e}".
iw_except(w) ==
    /\ iw[w].pc = "raised"
    /\ import_state' = [import_state EXCEPT !.last_error = "worker crashed"]
    /\ iw' = [iw EXCEPT ![w].pc = "finally"]
    /\ UNCHANGED <<cam_files, imp_last_index, import_cancel, notImport>>

NextImportFailures ==
    \/ \E w \in SoloImport : import_start(w)
    \/ import_stop
    \/ \E w \in SoloImport : iw_load(w)
    \/ \E w \in SoloImport : iw_list(w)
    \/ \E w \in SoloImport : iw_selected(w)
    \/ \E w \in SoloImport : iw_loop(w)
    \/ \E w \in SoloImport : iw_get(w)
    \/ \E w \in SoloImport : iw_count(w)
    \/ \E w \in SoloImport : iw_done_incr(w)
    \/ \E w \in SoloImport : iw_save(w)
    \/ \E w \in SoloImport : iw_finally(w)
    \/ \E w \in SoloImport : iw_crash(w)
    \/ \E w \in SoloImport : iw_except(w)

----------------------------------------------------------------------------
(* Intervalometer: interval_start, interval_stop and _interval_worker.      *)

MaxCount == 3

\* Worker threads interval_start can spawn in one behaviour.
IntervalWorkers == {"i1", "i2"}

\* interval in seconds: zero or positive.
Intervals == {0, 1}

\* What _capture_one can return, over all gateway scripts.
CaptureResults == {capture_one(s) : s \in Scripts}

\* Of the worker records, attempts counts the _capture_one calls made, sleeps
\* the time.sleep calls, failed_at is the attempt that failed (0: none), and
\* quiet tells that no other worker was active when the job started and that
\* no interval start or stop request has been handled since.
NoIntervalWorker ==
    [pc |-> "unborn", interval_s |-> 0, count |-> 0, ok |-> TRUE,
     attempts |-> 0, sleeps |-> 0, failed_at |-> 0, quiet |-> TRUE]

IntervalStateInit ==
    [running |-> FALSE, interval |-> 0, remaining |-> 0, total |-> 0,
     last_error |-> NoError]

IntervalIdle ==
    /\ interval_state = IntervalStateInit
    /\ ivw = [w \in IntervalWorkers |-> NoIntervalWorker]

IvActive(w) == ivw[w].pc \notin {"unborn", "done"}

\* interval_start(): interval >= 0 and count > 0 are required; under
\* interval_lock, refused while interval_state["running"]; otherwise the
\* worker thread is started. running is set by the worker, not here.
interval_accept(w) ==
    /\ ~interval_state.running
    /\ \E interval_s \in Intervals, count \in 1..MaxCount :
          ivw' = [v \in IntervalWorkers |->
                    IF v = w
                    THEN [NoIntervalWorker EXCEPT
                             !.pc = "init", !.interval_s = interval_s, !.count = count,
                             !.quiet = \A u \in IntervalWorkers : ~IvActive(u)]
                    ELSE [ivw[v] EXCEPT !.quiet = FALSE]]

interval_start(w) ==
    /\ ivw[w].pc = "unborn"
    /\ interval_accept(w)
    /\ UNCHANGED <<interval_state, notInterval>>

\* interval_stop(): running = False, whatever the state.
interval_stop_set ==
    /\ interval_state' = [interval_state EXCEPT !.running = FALSE]
    /\ ivw' = [v \in IntervalWorkers |-> [ivw[v] EXCEPT !.quiet = FALSE]]

interval_stop ==
    /\ interval_stop_set
    /\ UNCHANGED notInterval

\* The worker's first block: running = True, remaining = total = count,
\* last_error = None.
iv_init(w) ==
    /\ ivw[w].pc = "init"
    /\ interval_state' =
          [running |-> TRUE, interval |-> ivw[w].interval_s,
           remaining |-> ivw[w].count, total |-> ivw[w].count,
           last_error |-> NoError]
    /\ ivw' = [ivw EXCEPT ![w].pc = "check"]
    /\ UNCHANGED notInterval

\* Loop head: break when not running; when remaining <= 0 clear running and
\* break.
iv_check(w) ==
    /\ ivw[w].pc = "check"
    /\ IF ~interval_state.running
       THEN /\ ivw' = [ivw EXCEPT ![w].pc = "exit"]
            /\ UNCHANGED interval_state
       ELSE IF interval_state.remaining <= 0
            THEN /\ ivw' = [ivw EXCEPT ![w].pc = "exit"]
                 /\ interval_state' = [interval_state EXCEPT !.running = FALSE]
            ELSE /\ ivw' = [ivw EXCEPT ![w].pc = "capture"]
                 /\ UNCHANGED interval_state
    /\ UNCHANGED notInterval

\* with cam_lock: ok, _, _, _ = _capture_one(); a failed capture records
\* last_error.
iv_capture(w) ==
    /\ ivw[w].pc = "capture"
    /\ \E r \in CaptureResults :
          /\ ivw' = [ivw EXCEPT
                       ![w].pc = "after", ![w].ok = r.ok,
                       ![w].attempts = ivw[w].attempts + 1,
                       ![w].failed_at = IF r.ok THEN ivw[w].failed_at
                                        ELSE ivw[w].attempts + 1]
          /\ interval_state' =
                IF r.ok THEN interval_state
                ELSE [interval_state EXCEPT !.last_error = r.last_error]
    /\ UNCHANGED notInterval

\* Mutation: remaining is decremented after a failed capture too.
iv_after_decrements_on_failure(w) ==
    /\ ivw[w].pc = "after"
    /\ IF ~ivw[w].ok
       THEN /\ interval_state' = [interval_state EXCEPT
                  !.running = FALSE, !.remaining = interval_state.remaining - 1]
            /\ ivw' = [ivw EXCEPT ![w].pc = "exit"]
       ELSE /\ interval_state' =
                  [interval_state EXCEPT !.remaining = interval_state.remaining - 1]
            /\ ivw' = [ivw EXCEPT ![w].pc = "pause"]
    /\ UNCHANGED notInterval

\* if not ok: running = False, break; else remaining -= 1.
iv_after(w) ==
    /\ ivw[w].pc = "after"
    /\ IF ~ivw[w].ok
       THEN /\ interval_state' = [interval_state EXCEPT !.running = FALSE]
            /\ ivw' = [ivw EXCEPT ![w].pc = "exit"]
       ELSE /\ interval_state' =
                  [interval_state EXCEPT !.remaining = interval_state.remaining - 1]
            /\ ivw' = [ivw EXCEPT ![w].pc = "pause"]
    /\ UNCHANGED notInterval

\* Mutation: the sleep is not skipped for interval 0.
iv_pause_always_sleeps(w) ==
    /\ ivw[w].pc = "pause"
    /\ ivw' = [ivw EXCEPT ![w].pc = "sleeping", ![w].sleeps = ivw[w].sleeps + 1]
    /\ UNCHANGED <<interval_state, notInterval>>

\* if interval_s <= 0: continue; else time.sleep(interval_s).
iv_pause(w) ==
    /\ ivw[w].pc = "pause"
    /\ IF ivw[w].interval_s <= 0
       THEN ivw' = [ivw EXCEPT ![w].pc = "check"]
       ELSE ivw' = [ivw EXCEPT ![w].pc = "sleeping", ![w].sleeps = ivw[w].sleeps + 1]
    /\ UNCHANGED <<interval_state, notInterval>>

\* time.sleep returns.
iv_wake(w) ==
    /\ ivw[w].pc = "sleeping"
    /\ ivw' = [ivw EXCEPT ![w].pc = "check"]
    /\ UNCHANGED <<interval_state, notInterval>>

\* After the loop: running = False.
iv_exit(w) ==
    /\ ivw[w].pc = "exit"
    /\ interval_state' = [interval_state EXCEPT !.running = FALSE]
    /\ ivw' = [ivw EXCEPT ![w].pc = "done"]
    /\ UNCHANGED notInterval

NextInterval ==
    \/ \E w \in IntervalWorkers : interval_start(w)
    \/ interval_stop
    \/ \E w \in IntervalWorkers : iv_init(w)
    \/ \E w \in IntervalWorkers : iv_check(w)
    \/ \E w \in IntervalWorkers : iv_capture(w)
    \/ \E w \in IntervalWorkers : iv_after(w)
    \/ \E w \in IntervalWorkers : iv_pause(w)
    \/ \E w \in IntervalWorkers : iv_wake(w)
    \/ \E w \in IntervalWorkers : iv_exit(w)

----------------------------------------------------------------------------
(* Interval jobs with their stop requests noted.                            *)

StopsIdle == iv_stop_at = [w \in IntervalWorkers |-> -1]

notIntervalStops ==
    <<devVars, retryVars, demuxVars, importVars, jobsVars, cooldownVars, holdVars, mjpegVars, marksVars, stateLockVars, stopVars, cacheVars, waitVars, startVars, pathVars>>

\* interval_stop(), noting for each worker whose start was accepted and that
\* has not ended how many captures it has begun by now.
interval_stop_noted ==
    /\ interval_stop_set
    /\ iv_stop_at' = [w \in IntervalWorkers |->
                        IF IvActive(w) /\ iv_stop_at[w] = -1
                        THEN ivw[w].attempts ELSE iv_stop_at[w]]
    /\ UNCHANGED notIntervalStops

\* One job at a time is started here.
StopWorkers == {"i1"}

NextIntervalStops ==
    \/ \E w \in StopWorkers : interval_start(w)
    \/ interval_stop_noted
    \/ \E w \in StopWorkers : iv_init(w)
    \/ \E w \in StopWorkers : iv_check(w)
    \/ \E w \in StopWorkers : iv_capture(w)
    \/ \E w \in StopWorkers : iv_after(w)
    \/ \E w \in StopWorkers : iv_pause(w)
    \/ \E w \in StopWorkers : iv_wake(w)
    \/ \E w \in StopWorkers : iv_exit(w)

----------------------------------------------------------------------------
(* An interval job beside the other captures that record their failure in  *)
(* interval_state["last_error"].                                            *)

\* capture(): _capture_one(); its except clauses set
\* interval_state["last_error"] under interval_lock.
manual_capture_one ==
    /\ \E r \in CaptureResults :
          interval_state' =
             IF r.ok THEN interval_state
             ELSE [interval_state EXCEPT !.last_error = r.last_error]
    /\ UNCHANGED <<ivw, notInterval>>

\* _capture_testshot(): one gphoto2 invocation, no retry; its except
\* clauses set interval_state["last_error"] under interval_lock.
capture_testshot ==
    /\ \E out \in Outcomes :
          interval_state' =
             IF out = OK THEN interval_state
             ELSE [interval_state EXCEPT !.last_error = out]
    /\ UNCHANGED <<ivw, notInterval>>

NextIntervalErrors ==
    \/ \E w \in StopWorkers : interval_start(w)
    \/ interval_stop
    \/ \E w \in StopWorkers : iv_init(w)
    \/ \E w \in StopWorkers : iv_check(w)
    \/ \E w \in StopWorkers : iv_capture(w)
    \/ \E w \in StopWorkers : iv_after(w)
    \/ \E w \in StopWorkers : iv_pause(w)
    \/ \E w \in StopWorkers : iv_wake(w)
    \/ \E w \in StopWorkers : iv_exit(w)
    \/ manual_capture_one
    \/ capture_testshot

----------------------------------------------------------------------------
(* Manual capture: the cooldown of capture(), under cam_lock.               *)
(* Times are in tenths of a second.                                        *)

MaxClock == 30

\* MIN_CAPTURE_GAP = 1.2 seconds.
MIN_CAPTURE_GAP == 12

\* delay = 0.8: the longer of the two retry delays (capture 0.6 s, card-sync
\* get-file 0.8 s).
retry_delay == 8

\* /capture requests of one behaviour.
CaptureRequests == {"r1", "r2"}

\* Of the request records, t_read is the now the request read, slept tells
\* whether it called time.sleep, and wake is when that sleep is over.
NoRequest == [pc |-> "idle", t_read |-> 0, slept |-> FALSE, wake |-> 0]

\* LAST_CAPTURE_TS = 0.0 at import time; time.time() is far beyond
\* MIN_CAPTURE_GAP then.
CooldownIdle ==
    /\ now = MIN_CAPTURE_GAP
    /\ LAST_CAPTURE_TS = 0
    /\ cq = [r \in CaptureRequests |-> NoRequest]
    /\ stamps = << >>
    /\ starts = << >>

notCooldownLock ==
    <<pc, sync_i, retryVars, demuxVars, importVars, jobsVars, intervalVars, stopsVars, holdVars, mjpegVars, marksVars, stateLockVars, stopVars, cacheVars, waitVars, startVars, pathVars>>

\* Wall-clock time passes.
tick ==
    /\ now < MaxClock
    /\ now' = now + 1
    /\ UNCHANGED <<cam_lock, LAST_CAPTURE_TS, cq, stamps, starts, notCooldownLock>>

\* capture(): with cam_lock.
cd_acquire(r) ==
    /\ cq[r].pc = "idle"
    /\ cam_lock = Free
    /\ cam_lock' = r
    /\ cq' = [cq EXCEPT ![r].pc = "locked"]
    /\ UNCHANGED <<now, LAST_CAPTURE_TS, stamps, starts, notCooldownLock>>

\* Mutation: the remainder of the gap is not slept.
cd_read_no_sleep(r) ==
    /\ cq[r].pc = "locked"
    /\ cq' = [cq EXCEPT ![r].pc = "stamp", ![r].t_read = now]
    /\ UNCHANGED <<cam_lock, now, LAST_CAPTURE_TS, stamps, starts, notCooldownLock>>

\* now = time.time(); delta = now - LAST_CAPTURE_TS;
\* if delta < MIN_CAPTURE_GAP: time.sleep(MIN_CAPTURE_GAP - delta).
cd_read(r) ==
    /\ cq[r].pc = "locked"
    /\ LET delta == now - LAST_CAPTURE_TS
       IN  IF delta < MIN_CAPTURE_GAP
           THEN cq' = [cq EXCEPT ![r].pc = "sleeping", ![r].t_read = now,
                                 ![r].slept = TRUE,
                                 ![r].wake = now + (MIN_CAPTURE_GAP - delta)]
           ELSE cq' = [cq EXCEPT ![r].pc = "stamp", ![r].t_read = now]
    /\ UNCHANGED <<cam_lock, now, LAST_CAPTURE_TS, stamps, starts, notCooldownLock>>

\* time.sleep returns, not before the time asked for.
cd_wake(r) ==
    /\ cq[r].pc = "sleeping"
    /\ now >= cq[r].wake
    /\ cq' = [cq EXCEPT ![r].pc = "stamp"]
    /\ UNCHANGED <<cam_lock, now, LAST_CAPTURE_TS, stamps, starts, notCooldownLock>>

\* LAST_CAPTURE_TS = time.time().
cd_stamp(r) ==
    /\ cq[r].pc = "stamp"
    /\ LAST_CAPTURE_TS' = now
    /\ stamps' = Append(stamps, now)
    /\ cq' = [cq EXCEPT ![r].pc = "liveview"]
    /\ UNCHANGED <<cam_lock, now, starts, notCooldownLock>>

\* The live view is stopped if it runs, then _capture_one() is entered.
cd_capture(r) ==
    /\ cq[r].pc = "liveview"
    /\ starts' = Append(starts, now)
    /\ cq' = [cq EXCEPT ![r].pc = "capturing"]
    /\ UNCHANGED <<cam_lock, now, LAST_CAPTURE_TS, stamps, notCooldownLock>>

\* _capture_one() returns and the with block ends.
cd_release(r) ==
    /\ cq[r].pc = "capturing"
    /\ cam_lock = r
    /\ cam_lock' = Free
    /\ cq' = [cq EXCEPT ![r].pc = "done"]
    /\ UNCHANGED <<now, LAST_CAPTURE_TS, stamps, starts, notCooldownLock>>

NextCooldown ==
    \/ tick
    \/ \E r \in CaptureRequests : cd_acquire(r)
    \/ \E r \in CaptureRequests : cd_read(r)
    \/ \E r \in CaptureRequests : cd_wake(r)
    \/ \E r \in CaptureRequests : cd_stamp(r)
    \/ \E r \in CaptureRequests : cd_capture(r)
    \/ \E r \in CaptureRequests : cd_release(r)

----------------------------------------------------------------------------
(* The interval and import workers beside /capture: their device calls,    *)
(* with the clock and the cooldown of the manual capture.                   *)

\* Device calls each worker makes in one behaviour.
MaxPathCalls == 2

\* The /capture request that runs beside them.
PathRequests == {"r1"}

OtherCallers == {"interval_worker", "import_worker"}

NoCaller == [pc |-> "idle", calls |-> 0]

PathsIdle == oc = [c \in OtherCallers |-> NoCaller]

notCooldownPaths ==
    <<pc, sync_i, retryVars, demuxVars, importVars, jobsVars, intervalVars, stopsVars, holdVars, mjpegVars, marksVars, stateLockVars, stopVars, cacheVars, waitVars, startVars>>

\* The call is made inside with cam_lock: every capture of the interval
\* worker, and the listing of the import worker (_list_camera_files).
LockedCall(c) == c = "interval_worker" \/ oc[c].calls = 0

\* _interval_worker: with cam_lock; _list_camera_files: with cam_lock.
oc_lock(c) ==
    /\ oc[c].pc = "idle"
    /\ oc[c].calls < MaxPathCalls
    /\ LockedCall(c)
    /\ cam_lock = Free
    /\ cam_lock' = c
    /\ oc' = [oc EXCEPT ![c].pc = "locked"]
    /\ UNCHANGED <<cooldownVars, notCooldownPaths>>

\* Mutation: the worker goes through the cooldown of capture().
oc_call_cooled(c) ==
    /\ oc[c].pc = "locked"
    /\ now - LAST_CAPTURE_TS >= MIN_CAPTURE_GAP
    /\ LAST_CAPTURE_TS' = now
    /\ oc' = [oc EXCEPT ![c].pc = "calling"]
    /\ UNCHANGED <<cam_lock, now, cq, stamps, starts, notCooldownPaths>>

\* ok, _, _, _ = _capture_one() / subprocess.check_output(gphoto2
\* --list-files): the first statement of the with block.
oc_call(c) ==
    /\ oc[c].pc = "locked"
    /\ oc' = [oc EXCEPT ![c].pc = "calling"]
    /\ UNCHANGED <<cam_lock, cooldownVars, notCooldownPaths>>

\* The call returns and the with block ends.
oc_release(c) ==
    /\ oc[c].pc = "calling"
    /\ cam_lock = c
    /\ cam_lock' = Free
    /\ oc' = [oc EXCEPT ![c].pc = "idle", ![c].calls = @ + 1]
    /\ UNCHANGED <<cooldownVars, notCooldownPaths>>

\* _import_worker, per selected file: subprocess.check_output(gphoto2
\* --get-file), cam_lock not taken.
oc_get(c) ==
    /\ c = "import_worker"
    /\ oc[c].pc = "idle"
    /\ oc[c].calls < MaxPathCalls
    /\ ~LockedCall(c)
    /\ oc' = [oc EXCEPT ![c].pc = "getting"]
    /\ UNCHANGED <<cam_lock, cooldownVars, notCooldownPaths>>

oc_get_done(c) ==
    /\ oc[c].pc = "getting"
    /\ oc' = [oc EXCEPT ![c].pc = "idle", ![c].calls = @ + 1]
    /\ UNCHANGED <<cam_lock, cooldownVars, notCooldownPaths>>

NextCooldownPaths ==
    \/ tick
    \/ \E r \in PathRequests : cd_acquire(r)
    \/ \E r \in PathRequests : cd_read(r)
    \/ \E r \in PathRequests : cd_wake(r)
    \/ \E r \in PathRequests : cd_stamp(r)
    \/ \E r \in PathRequests : cd_capture(r)
    \/ \E r \in PathRequests : cd_release(r)
    \/ \E c \in OtherCallers : oc_lock(c)
    \/ \E c \in OtherCallers : oc_call(c)
    \/ \E c \in OtherCallers : oc_release(c)
    \/ \E c \in OtherCallers : oc_get(c)
    \/ \E c \in OtherCallers : oc_get_done(c)

----------------------------------------------------------------------------
(* The start requests of the two jobs with their answers: accepted (200)   *)
(* or refused because a job of the kind runs (400).                         *)

\* Start requests refused per kind of job in one behaviour.
MaxRefused == 1

JobKinds == {"import", "interval"}

\* The worker thread of each kind that a start request of this component
\* starts.
StartWorker == [import |-> "w1", interval |-> "i1"]

StartsIdle == sr = [k \in JobKinds |-> [accepted |-> 0, refused |-> 0]]

notImportStarts ==
    <<devVars, retryVars, demuxVars, jobsVars, intervalVars, stopsVars, cooldownVars, holdVars, mjpegVars, marksVars, stateLockVars, stopVars, cacheVars, waitVars, pathVars>>

notIntervalStarts ==
    <<devVars, retryVars, demuxVars, importVars, jobsVars, stopsVars, cooldownVars, holdVars, mjpegVars, marksVars, stateLockVars, stopVars, cacheVars, waitVars, pathVars>>

Answered(k, answer) ==
    sr' = [sr EXCEPT ![k][answer] = @ + 1]

\* Mutation: the state is reset and the event cleared before the running
\* test.
import_start_request_resets_first ==
    /\ sr["import"].refused < MaxRefused
    /\ IF import_state.running
       THEN /\ import_state' = [ImportStateInit EXCEPT !.running = TRUE]
            /\ import_cancel' = FALSE
            /\ Answered("import", "refused")
            /\ UNCHANGED iw
       ELSE /\ iw[StartWorker["import"]].pc = "unborn"
            /\ import_accept(StartWorker["import"])
            /\ Answered("import", "accepted")
    /\ UNCHANGED <<cam_files, imp_last_index, notImportStarts>>

\* import_start(): with import_lock: if import_state.get("running"): return
\* 400; else the reset, import_cancel.clear() and t.start().
import_start_request ==
    /\ sr["import"].refused < MaxRefused
    /\ IF import_state.running
       THEN /\ Answered("import", "refused")
            /\ UNCHANGED <<import_state, import_cancel, iw>>
       ELSE /\ iw[StartWorker["import"]].pc = "unborn"
            /\ import_accept(StartWorker["import"])
            /\ Answered("import", "accepted")
    /\ UNCHANGED <<cam_files, imp_last_index, notImportStarts>>

\* interval_start(): with interval_lock: if interval_state["running"]:
\* return 400; else the thread is created and started.
interval_start_request ==
    /\ sr["interval"].refused < MaxRefused
    /\ IF interval_state.running
       THEN /\ Answered("interval", "refused")
            /\ UNCHANGED ivw
       ELSE /\ ivw[StartWorker["interval"]].pc = "unborn"
            /\ interval_accept(StartWorker["interval"])
            /\ Answered("interval", "accepted")
    /\ UNCHANGED <<interval_state, notIntervalStarts>>

NextStartRequests ==
    \/ import_start_request
    \/ import_stop
    \/ \E w \in {StartWorker["import"]} : iw_load(w)
    \/ \E w \in {StartWorker["import"]} : iw_list(w)
    \/ \E w \in {StartWorker["import"]} : iw_selected(w)
    \/ \E w \in {StartWorker["import"]} : iw_loop(w)
    \/ \E w \in {StartWorker["import"]} : iw_get(w)
    \/ \E w \in {StartWorker["import"]} : iw_count(w)
    \/ \E w \in {StartWorker["import"]} : iw_done_incr(w)
    \/ \E w \in {StartWorker["import"]} : iw_save(w)
    \/ \E w \in {StartWorker["import"]} : iw_finally(w)
    \/ interval_start_request
    \/ interval_stop
    \/ \E w \in {StartWorker["interval"]} : iv_init(w)
    \/ \E w \in {StartWorker["interval"]} : iv_check(w)
    \/ \E w \in {StartWorker["interval"]} : iv_capture(w)
    \/ \E w \in {StartWorker["interval"]} : iv_after(w)
    \/ \E w \in {StartWorker["interval"]} : iv_pause(w)
    \/ \E w \in {StartWorker["interval"]} : iv_wake(w)
    \/ \E w \in {StartWorker["interval"]} : iv_exit(w)

----------------------------------------------------------------------------
(* Live-view hold supervisor: _liveview_proc_start, _liveview_proc_stop and *)
(* _liveview_proc_running, as used by live_start, live_stop, live_status,   *)
(* capture and the import job.                                              *)

MaxHolds == 3

\* The threads that meet the supervisor: one request of each kind at a time.
HoldThreads == {"lv_start", "lv_stop", "lv_status", "lv_capture", "lv_import"}

\* Of the thread records, p is the process Popen returned to a start; row
\* tells that the start follows a successful start whose process is still
\* alive; at_a and at_b are the hold processes alive when a capture took
\* cam_lock (an import was started) and when it issued its device call.
NoHoldThread == [pc |-> "idle", p |-> 0, row |-> FALSE, at_a |-> {}, at_b |-> {}]

NoCall == [op |-> "none", p |-> 0]

NoRow == [second |-> FALSE, ret |-> TRUE, spawned |-> FALSE, n_alive |-> 0]

HoldIdle ==
    /\ lv_proc = 0
    /\ lv_running = FALSE
    /\ lv_alive = {}
    /\ lv_spawned = 0
    /\ lv_lock = Free
    /\ hq = [t \in HoldThreads |-> NoHoldThread]
    /\ lv_last = NoCall
    /\ lv_row = NoRow

notHoldLock ==
    <<pc, sync_i, retryVars, demuxVars, importVars, jobsVars, intervalVars, stopsVars, cooldownVars, mjpegVars, marksVars, stateLockVars, stopVars, cacheVars, waitVars, startVars, pathVars>>

\* The previous supervisor call to return was a successful start, and the
\* process it left in place is still alive.
SecondInRow == lv_last.op = "start_ok" /\ lv_last.p \in lv_alive

\* Where a thread goes on when _liveview_proc_running() returns r.
AfterRunning(t, r) ==
    IF t = "lv_capture" THEN (IF r THEN "stop" ELSE "call") ELSE "idle"

\* Where a thread goes on when _liveview_proc_stop() returns.
AfterStop(t) == IF t = "lv_capture" THEN "call" ELSE "idle"

\* Where _liveview_proc_running() / _liveview_proc_stop() is entered.
RunningEntry(t) == IF t = "lv_capture" THEN "check" ELSE "idle"
StopEntry(t) == IF t = "lv_capture" THEN "stop" ELSE "idle"

\* live_start() -> _liveview_proc_start(): with _liveview_lock; a handle
\* whose process is alive makes the call return True at once.
liveview_proc_start_enter ==
    /\ hq["lv_start"].pc = "idle"
    /\ lv_lock = Free
    /\ IF lv_proc # 0 /\ lv_proc \in lv_alive
       THEN /\ lv_last' = [op |-> "start_ok", p |-> lv_proc]
            /\ lv_row' = [second |-> SecondInRow, ret |-> TRUE, spawned |-> FALSE,
                          n_alive |-> Cardinality(lv_alive)]
            /\ UNCHANGED <<lv_lock, hq>>
       ELSE /\ lv_lock' = "lv_start"
            /\ hq' = [hq EXCEPT !["lv_start"].pc = "popen", !["lv_start"].row = SecondInRow]
            /\ UNCHANGED <<lv_last, lv_row>>
    /\ UNCHANGED <<cam_lock, lv_proc, lv_running, lv_alive, lv_spawned, notHoldLock>>

\* subprocess.Popen returns a new process, or raises: the except branch
\* clears the state and the call returns False.
liveview_proc_start_popen ==
    /\ hq["lv_start"].pc = "popen"
    /\ \/ /\ lv_spawned < MaxHolds
          /\ lv_spawned' = lv_spawned + 1
          /\ lv_alive' = lv_alive \cup {lv_spawned + 1}
          /\ hq' = [hq EXCEPT !["lv_start"].pc = "assign", !["lv_start"].p = lv_spawned + 1]
          /\ UNCHANGED <<lv_proc, lv_running, lv_lock, lv_last, lv_row>>
       \/ /\ lv_proc' = 0
          /\ lv_running' = FALSE
          /\ lv_lock' = Free
          /\ lv_last' = [op |-> "start_failed", p |-> 0]
          /\ lv_row' = [second |-> hq["lv_start"].row, ret |-> FALSE, spawned |-> FALSE,
                        n_alive |-> Cardinality(lv_alive)]
          /\ hq' = [hq EXCEPT !["lv_start"] = NoHoldThread]
          /\ UNCHANGED <<lv_alive, lv_spawned>>
    /\ UNCHANGED <<cam_lock, notHoldLock>>

\* _liveview_proc = <the new process>; running = True; return True.
liveview_proc_start_assign ==
    /\ hq["lv_start"].pc = "assign"
    /\ lv_proc' = hq["lv_start"].p
    /\ lv_running' = TRUE
    /\ lv_lock' = Free
    /\ lv_last' = [op |-> "start_ok", p |-> hq["lv_start"].p]
    /\ lv_row' = [second |-> hq["lv_start"].row, ret |-> TRUE, spawned |-> TRUE,
                  n_alive |-> Cardinality(lv_alive)]
    /\ hq' = [hq EXCEPT !["lv_start"] = NoHoldThread]
    /\ UNCHANGED <<cam_lock, lv_alive, lv_spawned, notHoldLock>>

\* _liveview_proc_stop(): with _liveview_lock; no handle: running = False,
\* return.
liveview_proc_stop_enter(t) ==
    /\ hq[t].pc = StopEntry(t)
    /\ lv_lock = Free
    /\ IF lv_proc = 0
       THEN /\ lv_running' = FALSE
            /\ lv_last' = [op |-> "stop", p |-> 0]
            /\ hq' = [hq EXCEPT ![t].pc = AfterStop(t)]
            /\ UNCHANGED lv_lock
       ELSE /\ lv_lock' = t
            /\ hq' = [hq EXCEPT ![t].pc = "term"]
            /\ UNCHANGED <<lv_running, lv_last>>
    /\ UNCHANGED <<cam_lock, lv_proc, lv_alive, lv_spawned, lv_row, notHoldLock>>

\* _liveview_proc.terminate(), wait(timeout=5), kill(): the global is read
\* again; if it is None by now the AttributeError is swallowed and no
\* process is signalled.
liveview_proc_stop_terminate(t) ==
    /\ hq[t].pc = "term"
    /\ lv_alive' = IF lv_proc = 0 THEN lv_alive ELSE lv_alive \ {lv_proc}
    /\ hq' = [hq EXCEPT ![t].pc = "fin"]
    /\ UNCHANGED <<cam_lock, lv_proc, lv_running, lv_spawned, lv_lock, lv_last, lv_row, notHoldLock>>

\* finally: _liveview_proc = None; running = False; _set_liveview(False).
liveview_proc_stop_finally(t) ==
    /\ hq[t].pc = "fin"
    /\ lv_proc' = 0
    /\ lv_running' = FALSE
    /\ lv_lock' = Free
    /\ lv_last' = [op |-> "stop", p |-> 0]
    /\ hq' = [hq EXCEPT ![t].pc = AfterStop(t)]
    /\ UNCHANGED <<cam_lock, lv_alive, lv_spawned, lv_row, notHoldLock>>

\* _liveview_proc_running(), not under _liveview_lock:
\* if _liveview_proc is None: return False.
liveview_proc_running_none(t) ==
    /\ hq[t].pc = RunningEntry(t)
    /\ hq' = [hq EXCEPT ![t].pc = IF lv_proc = 0 THEN AfterRunning(t, FALSE) ELSE "poll"]
    /\ UNCHANGED <<cam_lock, lv_proc, lv_running, lv_alive, lv_spawned, lv_lock, lv_last, lv_row, notHoldLock>>

\* if _liveview_proc.poll() is None: return True. The global is read again:
\* if it is None by now, AttributeError ends the request (and the with
\* cam_lock block of capture).
liveview_proc_running_poll(t) ==
    /\ hq[t].pc = "poll"
    /\ IF lv_proc = 0
       THEN /\ hq' = [hq EXCEPT ![t] = NoHoldThread]
            /\ cam_lock' = IF t = "lv_capture" THEN Free ELSE cam_lock
       ELSE /\ hq' = [hq EXCEPT ![t].pc = IF lv_proc \in lv_alive
                                           THEN AfterRunning(t, TRUE) ELSE "clear"]
            /\ UNCHANGED cam_lock
    /\ UNCHANGED <<lv_proc, lv_running, lv_alive, lv_spawned, lv_lock, lv_last, lv_row, notHoldLock>>

\* process finished: _liveview_proc = None; running = False; return False.
liveview_proc_running_clear(t) ==
    /\ hq[t].pc = "clear"
    /\ lv_proc' = 0
    /\ lv_running' = FALSE
    /\ hq' = [hq EXCEPT ![t].pc = AfterRunning(t, FALSE)]
    /\ UNCHANGED <<cam_lock, lv_alive, lv_spawned, lv_lock, lv_last, lv_row, notHoldLock>>

\* capture(): with cam_lock (the cooldown is SpecCooldown's).
hold_capture_lock ==
    /\ hq["lv_capture"].pc = "idle"
    /\ cam_lock = Free
    /\ cam_lock' = "lv_capture"
    /\ hq' = [hq EXCEPT !["lv_capture"].pc = "check", !["lv_capture"].at_a = lv_alive]
    /\ UNCHANGED <<lv_proc, lv_running, lv_alive, lv_spawned, lv_lock, lv_last, lv_row, notHoldLock>>

\* _capture_one() is entered: the capture device call is issued.
hold_capture_call ==
    /\ hq["lv_capture"].pc = "call"
    /\ hq' = [hq EXCEPT !["lv_capture"].pc = "capturing", !["lv_capture"].at_b = lv_alive]
    /\ UNCHANGED <<cam_lock, lv_proc, lv_running, lv_alive, lv_spawned, lv_lock, lv_last, lv_row, notHoldLock>>

\* _capture_one() returns and the with block ends.
hold_capture_return ==
    /\ hq["lv_capture"].pc = "capturing"
    /\ cam_lock' = Free
    /\ hq' = [hq EXCEPT !["lv_capture"] = NoHoldThread]
    /\ UNCHANGED <<lv_proc, lv_running, lv_alive, lv_spawned, lv_lock, lv_last, lv_row, notHoldLock>>

\* import_start() accepts a job and starts the worker thread; the hold
\* supervisor is not called.
hold_import_start ==
    /\ hq["lv_import"].pc = "idle"
    /\ hq' = [hq EXCEPT !["lv_import"].pc = "worker", !["lv_import"].at_a = lv_alive]
    /\ UNCHANGED <<cam_lock, lv_proc, lv_running, lv_alive, lv_spawned, lv_lock, lv_last, lv_row, notHoldLock>>

\* _import_worker: the first device call, _list_camera_files().
hold_import_list ==
    /\ hq["lv_import"].pc = "worker"
    /\ hq' = [hq EXCEPT !["lv_import"].pc = "listed", !["lv_import"].at_b = lv_alive]
    /\ UNCHANGED <<cam_lock, lv_proc, lv_running, lv_alive, lv_spawned, lv_lock, lv_last, lv_row, notHoldLock>>

\* The worker ends.
hold_import_end ==
    /\ hq["lv_import"].pc = "listed"
    /\ hq' = [hq EXCEPT !["lv_import"] = NoHoldThread]
    /\ UNCHANGED <<cam_lock, lv_proc, lv_running, lv_alive, lv_spawned, lv_lock, lv_last, lv_row, notHoldLock>>

\* A hold process exits by itself: its --wait-event time is over.
hold_exit(p) ==
    /\ p \in lv_alive
    /\ lv_alive' = lv_alive \ {p}
    /\ UNCHANGED <<cam_lock, lv_proc, lv_running, lv_spawned, lv_lock, hq, lv_last, lv_row, notHoldLock>>

NextHold ==
    \/ liveview_proc_start_enter
    \/ liveview_proc_start_popen
    \/ liveview_proc_start_assign
    \/ \E t \in {"lv_stop", "lv_capture"} : liveview_proc_stop_enter(t)
    \/ \E t \in {"lv_stop", "lv_capture"} : liveview_proc_stop_terminate(t)
    \/ \E t \in {"lv_stop", "lv_capture"} : liveview_proc_stop_finally(t)
    \/ \E t \in {"lv_status", "lv_capture"} : liveview_proc_running_none(t)
    \/ \E t \in {"lv_status", "lv_capture"} : liveview_proc_running_poll(t)
    \/ \E t \in {"lv_status", "lv_capture"} : liveview_proc_running_clear(t)
    \/ hold_capture_lock
    \/ hold_capture_call
    \/ hold_capture_return
    \/ hold_import_start
    \/ hold_import_list
    \/ hold_import_end
    \/ \E p \in 1..MaxHolds : hold_exit(p)

----------------------------------------------------------------------------
(* The wait duration of the live-view hold: live_start and                  *)
(* _liveview_proc_start, with liveview.json.                                *)

\* if wait_s < 5: wait_s = 5; if wait_s > 3600: wait_s = 3600.
MinHoldWait == 5
MaxHoldWait == 3600

\* "hold_wait": 300, the default of liveview_state and of liveview.json.
DefaultHoldWait == 300

\* What a request can carry as wait_seconds or wait: nothing, a JSON number,
\* or a JSON string, of digits (val is the number they spell) or not.
Num(n) == [kind |-> "number", val |-> n]
Requested ==
    {[kind |-> "missing", val |-> 0], [kind |-> "text", val |-> 0],
     [kind |-> "digits", val |-> 12]}
    \cup {Num(n) : n \in {-1, 0, 4, 5, 3600, 3601}}

\* Python truth of a request value, as the or chain of live_start tests it.
Truthy(v) == ~(v.kind = "missing" \/ (v.kind = "number" /\ v.val = 0))

\* int(v): the number, the number a digit string spells, or ValueError.
int(v) ==
    IF v.kind \in {"number", "digits"} THEN [ok |-> TRUE, val |-> v.val]
    ELSE [ok |-> FALSE, val |-> 0]

\* liveview_state.get("hold_wait") or 300
HoldWaitOrDefault == IF hw_hold_wait # 0 THEN hw_hold_wait ELSE DefaultHoldWait

\* live_start: wait_s = data.get("wait_seconds") or data.get("wait") or
\* liveview_state.get("hold_wait") or 300; int(wait_s), on an exception
\* hold_wait or 300.
live_start_wait(ws, wt) ==
    LET v == IF Truthy(ws) THEN ws
             ELSE IF Truthy(wt) THEN wt ELSE Num(HoldWaitOrDefault)
    IN  IF int(v).ok THEN int(v).val ELSE HoldWaitOrDefault

\* The integers live_start can pass on, over all requests.
StartWaits == {live_start_wait(ws, wt) : ws \in Requested, wt \in Requested}

\* Mutation: the lower bound is not applied.
clamp_upper_only(n) == IF n > MaxHoldWait THEN MaxHoldWait ELSE n

\* _liveview_proc_start: wait_s = int(wait_s or 0), then the two bounds;
\* asked is the integer live_start passes.
clamp(n) ==
    IF n < MinHoldWait THEN MinHoldWait
    ELSE IF n > MaxHoldWait THEN MaxHoldWait ELSE n

NoStart == [found |-> FALSE, spawned |-> FALSE, saved |-> "no", ret |-> FALSE,
            before |-> 0, asked |-> 0]

WaitIdle ==
    /\ hw_hold_wait = DefaultHoldWait
    /\ hw_conf = DefaultHoldWait
    /\ hw_proc = 0
    /\ hw_alive = FALSE
    /\ hw_last = NoStart

\* Mutation: a failed write of liveview.json is taken for a failed start.
hold_persist_fatal(asked, save_ok) ==
    LET wait_s == clamp(asked) IN
    /\ hw_hold_wait' = IF save_ok THEN wait_s ELSE hw_hold_wait
    /\ hw_conf' = IF save_ok THEN wait_s ELSE hw_conf
    /\ hw_proc' = IF save_ok THEN wait_s ELSE 0
    /\ hw_alive' = save_ok
    /\ hw_last' = [found |-> FALSE, spawned |-> TRUE,
                   saved |-> IF save_ok THEN "yes" ELSE "failed",
                   ret |-> save_ok, before |-> hw_hold_wait, asked |-> asked]

\* The process was spawned: running = True, hold_wait = wait_s, and the
\* default is persisted: cfg = _load_liveview_conf(); cfg["hold_wait"] =
\* wait_s; _save_liveview_conf(cfg), which writes the file or returns False.
hold_persist(asked, save_ok) ==
    LET wait_s == clamp(asked) IN
    /\ hw_hold_wait' = wait_s
    /\ hw_conf' = IF save_ok THEN wait_s ELSE hw_conf
    /\ hw_proc' = wait_s
    /\ hw_alive' = TRUE
    /\ hw_last' = [found |-> FALSE, spawned |-> TRUE,
                   saved |-> IF save_ok THEN "yes" ELSE "failed",
                   ret |-> TRUE, before |-> hw_hold_wait, asked |-> asked]

\* POST /api/live/start. _liveview_proc_start under _liveview_lock: a held
\* process that is alive is left alone; else the wait is bounded, the
\* process spawned (or Popen raises and the start fails) and the wait
\* recorded.
hold_start ==
    /\ \E asked \in StartWaits, popen_ok \in BOOLEAN, save_ok \in BOOLEAN :
          IF hw_proc # 0 /\ hw_alive
          THEN /\ hw_last' = [NoStart EXCEPT !.found = TRUE, !.ret = TRUE,
                                             !.before = hw_hold_wait]
               /\ UNCHANGED <<hw_hold_wait, hw_conf, hw_proc, hw_alive>>
          ELSE IF popen_ok
               THEN hold_persist(asked, save_ok)
               ELSE /\ hw_proc' = 0
                    /\ hw_alive' = FALSE
                    /\ hw_last' = [NoStart EXCEPT !.before = hw_hold_wait, !.asked = asked]
                    /\ UNCHANGED <<hw_hold_wait, hw_conf>>
    /\ UNCHANGED notWait

\* The hold process exits when its --wait-event has run out.
hold_wait_over ==
    /\ hw_alive
    /\ hw_alive' = FALSE
    /\ UNCHANGED <<hw_hold_wait, hw_conf, hw_proc, hw_last, notWait>>

\* _liveview_proc_stop: the process is ended and the handle cleared.
hold_stop ==
    /\ hw_proc # 0
    /\ hw_proc' = 0
    /\ hw_alive' = FALSE
    /\ UNCHANGED <<hw_hold_wait, hw_conf, hw_last, notWait>>

NextHoldWait ==
    \/ hold_start
    \/ hold_wait_over
    \/ hold_stop

\* The hold starts beside one import job and its config write.
NextPersistence ==
    \/ NextHoldWait
    \/ NextImportFailures

----------------------------------------------------------------------------
(* MJPEG stream supervisor: live_stream.generate and live_stream_stop, as   *)
(* far as the movie-capture process and _live_mjpeg_proc are concerned.     *)

MaxMovies == 3

\* Concurrent /live_stream.mjpg requests.
StreamRequests == {"s1", "s2"}

\* proc is the generator's local: the process its Popen returned.
NoStream == [pc |-> "idle", proc |-> 0]

MjpegIdle ==
    /\ live_mjpeg_proc = 0
    /\ mjpeg_alive = {}
    /\ mjpeg_spawned = 0
    /\ sq = [s \in StreamRequests |-> NoStream]
    /\ stopq = NoStream

\* generate(): proc = subprocess.Popen(gphoto2 --capture-movie --stdout),
\* whatever _live_mjpeg_proc holds.
mjpeg_popen(s) ==
    /\ sq[s].pc = "idle"
    /\ mjpeg_spawned < MaxMovies
    /\ mjpeg_spawned' = mjpeg_spawned + 1
    /\ mjpeg_alive' = mjpeg_alive \cup {mjpeg_spawned + 1}
    /\ sq' = [sq EXCEPT ![s] = [pc |-> "register", proc |-> mjpeg_spawned + 1]]
    /\ UNCHANGED <<live_mjpeg_proc, stopq, notMjpeg>>

\* with _live_mjpeg_lock: _live_mjpeg_proc = proc.
mjpeg_register(s) ==
    /\ sq[s].pc = "register"
    /\ live_mjpeg_proc' = sq[s].proc
    /\ sq' = [sq EXCEPT ![s].pc = "reading"]
    /\ UNCHANGED <<mjpeg_alive, mjpeg_spawned, stopq, notMjpeg>>

\* The read loop ends: the process has exited and read returns b"", or the
\* client has gone and the generator is closed.
mjpeg_loop_ends(s) ==
    /\ sq[s].pc = "reading"
    /\ sq' = [sq EXCEPT ![s].pc = "finally"]
    /\ UNCHANGED <<live_mjpeg_proc, mjpeg_alive, mjpeg_spawned, stopq, notMjpeg>>

\* finally: with _live_mjpeg_lock: if _live_mjpeg_proc is proc:
\* _live_mjpeg_proc = None.
mjpeg_finally_clear(s) ==
    /\ sq[s].pc = "finally"
    /\ live_mjpeg_proc' = IF live_mjpeg_proc = sq[s].proc THEN 0 ELSE live_mjpeg_proc
    /\ sq' = [sq EXCEPT ![s].pc = "kill"]
    /\ UNCHANGED <<mjpeg_alive, mjpeg_spawned, stopq, notMjpeg>>

\* proc.terminate(), wait(timeout=0.8), kill(); _set_liveview(False).
mjpeg_finally_kill(s) ==
    /\ sq[s].pc = "kill"
    /\ mjpeg_alive' = mjpeg_alive \ {sq[s].proc}
    /\ sq' = [sq EXCEPT ![s] = NoStream]
    /\ UNCHANGED <<live_mjpeg_proc, mjpeg_spawned, stopq, notMjpeg>>

\* live_stream_stop(): with _live_mjpeg_lock: proc = _live_mjpeg_proc;
\* _live_mjpeg_proc = None. No proc: "no stream".
live_stream_stop_take ==
    /\ stopq.pc = "idle"
    /\ live_mjpeg_proc' = 0
    /\ stopq' = IF live_mjpeg_proc = 0 THEN NoStream
                ELSE [pc |-> "kill", proc |-> live_mjpeg_proc]
    /\ UNCHANGED <<mjpeg_alive, mjpeg_spawned, sq, notMjpeg>>

\* proc.terminate(), wait(timeout=0.8), kill(); _set_liveview(False).
live_stream_stop_kill ==
    /\ stopq.pc = "kill"
    /\ mjpeg_alive' = mjpeg_alive \ {stopq.proc}
    /\ stopq' = NoStream
    /\ UNCHANGED <<live_mjpeg_proc, mjpeg_spawned, sq, notMjpeg>>

\* A movie-capture process exits by itself.
mjpeg_exit(p) ==
    /\ p \in mjpeg_alive
    /\ mjpeg_alive' = mjpeg_alive \ {p}
    /\ UNCHANGED <<live_mjpeg_proc, mjpeg_spawned, sq, stopq, notMjpeg>>

NextMjpeg ==
    \/ \E s \in StreamRequests : mjpeg_popen(s)
    \/ \E s \in StreamRequests : mjpeg_register(s)
    \/ \E s \in StreamRequests : mjpeg_loop_ends(s)
    \/ \E s \in StreamRequests : mjpeg_finally_clear(s)
    \/ \E s \in StreamRequests : mjpeg_finally_kill(s)
    \/ live_stream_stop_take
    \/ live_stream_stop_kill
    \/ \E p \in 1..MaxMovies : mjpeg_exit(p)

----------------------------------------------------------------------------
(* The last-known-good cache of /api/status: _gp_first_value with a         *)
(* cache_key, for one cached field (battery and shooting mode alike).       *)

\* Candidate config keys tried for the field.
MaxKeys == 2

\* Status requests each thread serves in one behaviour.
MaxQueries == 2

StatusThreads == {"q1", "q2"}

None == "None"

\* Values the camera reports for the field.
FieldValues == {"80%", "79%"}

\* What one _gp_get_config_safe call gives as info.get("value"): a value,
\* or None (the call failed, or no Current: line), "" or "N/A".
Unreadable == {None, "", "N/A"}

\* Of the request records, k is the key being tried, v the value read, ret
\* the answer, fell_back tells that every key failed, and seen is the value
\* most recently read when the request began, alone if no other request was
\* in progress then.
NoQuery == [pc |-> "idle", k |-> 1, v |-> None, ret |-> None, fell_back |-> FALSE,
            seen |-> None, alone |-> FALSE, served |-> 0]

CacheIdle ==
    /\ last_status_cache = None
    /\ sc_last_read = None
    /\ scq = [t \in StatusThreads |-> NoQuery]

\* api_status: battery = _gp_first_value([...], cache_key="battery").
status_begin(t) ==
    /\ scq[t].pc \in {"idle", "done"}
    /\ scq[t].served < MaxQueries
    /\ scq' = [scq EXCEPT ![t] = [NoQuery EXCEPT
                 !.pc = "read", !.seen = sc_last_read,
                 !.alone = \A u \in StatusThreads \ {t} : scq[u].pc \in {"idle", "done"},
                 !.served = scq[t].served]]
    /\ UNCHANGED <<last_status_cache, sc_last_read, notCache>>

\* for k in keys: info = _gp_get_config_safe(k), one gphoto2 --get-config
\* under cam_lock; v = info.get("value") if info else None; a v not in
\* (None, "", "N/A") ends the loop.
status_read(t) ==
    /\ scq[t].pc = "read"
    /\ \E v \in FieldValues \cup Unreadable :
          IF v \notin Unreadable
          THEN /\ scq' = [scq EXCEPT ![t].pc = "store", ![t].v = v]
               /\ sc_last_read' = v
          ELSE /\ scq' = [scq EXCEPT
                            ![t].pc = IF scq[t].k = MaxKeys THEN "fallback" ELSE "read",
                            ![t].k = IF scq[t].k = MaxKeys THEN scq[t].k ELSE scq[t].k + 1]
               /\ UNCHANGED sc_last_read
    /\ UNCHANGED <<last_status_cache, notCache>>

\* _last_status_cache[cache_key] = v; return v.
status_store(t) ==
    /\ scq[t].pc = "store"
    /\ last_status_cache' = scq[t].v
    /\ scq' = [scq EXCEPT ![t].pc = "done", ![t].ret = scq[t].v,
                          ![t].served = scq[t].served + 1]
    /\ UNCHANGED <<sc_last_read, notCache>>

\* return _last_status_cache.get(cache_key).
status_fallback(t) ==
    /\ scq[t].pc = "fallback"
    /\ scq' = [scq EXCEPT ![t].pc = "done", ![t].ret = last_status_cache,
                          ![t].fell_back = TRUE, ![t].served = scq[t].served + 1]
    /\ UNCHANGED <<last_status_cache, sc_last_read, notCache>>

NextStatusCache ==
    \/ \E t \in StatusThreads : status_begin(t)
    \/ \E t \in StatusThreads : status_read(t)
    \/ \E t \in StatusThreads : status_store(t)
    \/ \E t \in StatusThreads : status_fallback(t)

----------------------------------------------------------------------------
(* preview.json: the card sync of /latest_info and the config toggle.       *)

\* Most files the card holds.
MaxShots == 3

\* Requests to /latest_info served at the same time.
SyncThreads == {"p1", "p2"}

\* A file of the listing: its kind, and whether its line ends in a numeric
\* timestamp.  File i of the card has index i; a timestamp, if present, is i.
FileKinds == {"jpg", "mov"}

CardFile == [kind : FileKinds, has_ts : BOOLEAN]

Cards == UNION {[1..n -> CardFile] : n \in 0..MaxShots}

FileTs(c, i) == IF c[i].has_ts THEN i ELSE 0

\* _load_preview_conf() when preview.json does not exist.
PreviewConfDefault == [last_index |-> 0, last_ts |-> 0, enabled |-> TRUE]

NoSync == [pc |-> "idle", cfg |-> PreviewConfDefault, target |-> 0, ts |-> 0]

NoToggle == [pc |-> "idle", cfg |-> PreviewConfDefault]

MarksIdle ==
    /\ preview_conf = PreviewConfDefault
    /\ card = << >>
    /\ pv = [t \in SyncThreads |-> NoSync]
    /\ tg = NoToggle

SetMax(S) == CHOOSE x \in S : \A y \in S : y <= x

\* The stills of a listing: the indices whose name ends in a still extension.
Stills(c) == {i \in 1..Len(c) : c[i].kind = "jpg"}

\* The file the sync mirrors, 0 when there is none: by timestamp if any still
\* has one, otherwise by index.
SyncTarget(c, last_idx, last_ts) ==
    LET stills == Stills(c)
        ts_available == \E i \in stills : FileTs(c, i) # 0
        newer == IF ts_available
                 THEN {i \in stills : FileTs(c, i) # 0 /\ FileTs(c, i) > last_ts}
                 ELSE {i \in stills : i > last_idx}
    IN IF newer = {} THEN 0
       ELSE IF ts_available
            THEN CHOOSE i \in newer : \A k \in newer : FileTs(c, k) <= FileTs(c, i)
            ELSE SetMax(newer)

\* The camera stores one more file.
shoot ==
    /\ Len(card) < MaxShots
    /\ \E f \in CardFile : card' = Append(card, f)
    /\ UNCHANGED <<preview_conf, pv, tg, notMarks>>

\* cfg = _load_preview_conf(); a disabled sync returns at once.
pv_load(t) ==
    /\ pv[t].pc = "idle"
    /\ pv' = [pv EXCEPT ![t] = [NoSync EXCEPT !.cfg = preview_conf,
                                  !.pc = IF preview_conf.enabled THEN "list" ELSE "idle"]]
    /\ UNCHANGED <<preview_conf, card, tg, notMarks>>

\* files = _list_camera_files(), empty when gphoto2 fails; the run returns
\* when there is no file, no still or no still newer than the marks.
pv_list(t) ==
    /\ pv[t].pc = "list"
    /\ \E files \in {card, << >>} :
          LET target == SyncTarget(files, pv[t].cfg.last_index, pv[t].cfg.last_ts)
          IN pv' = [pv EXCEPT ![t] =
                      IF target = 0 THEN NoSync
                      ELSE [@ EXCEPT !.pc = "get", !.target = target,
                                     !.ts = FileTs(files, target)]]
    /\ UNCHANGED <<preview_conf, card, tg, notMarks>>

\* gphoto2 --get-file of the target: on success the marks of the cfg loaded
\* at the start are set and that cfg is written back; when the attempts
\* give up nothing is written.
pv_get(t) ==
    /\ pv[t].pc = "get"
    /\ \/ /\ preview_conf' =
               [pv[t].cfg EXCEPT !.last_index = pv[t].target,
                                 !.last_ts = IF pv[t].ts # 0 THEN pv[t].ts ELSE @]
       \/ /\ UNCHANGED preview_conf
    /\ pv' = [pv EXCEPT ![t] = NoSync]
    /\ UNCHANGED <<card, tg, notMarks>>

\* preview_set_config(): cfg = _load_preview_conf()
tg_load ==
    /\ tg.pc = "idle"
    /\ tg' = [pc |-> "save", cfg |-> preview_conf]
    /\ UNCHANGED <<preview_conf, card, pv, notMarks>>

\* preview_set_config(): cfg["enabled"] = enabled; _save_preview_conf(cfg),
\* which may fail to write.
tg_save ==
    /\ tg.pc = "save"
    /\ \/ \E enabled \in BOOLEAN :
            preview_conf' = [tg.cfg EXCEPT !.enabled = enabled]
       \/ UNCHANGED preview_conf
    /\ tg' = NoToggle
    /\ UNCHANGED <<card, pv, notMarks>>

NextMarks ==
    \/ shoot
    \/ \E t \in SyncThreads : pv_load(t)
    \/ \E t \in SyncThreads : pv_list(t)
    \/ \E t \in SyncThreads : pv_get(t)
    \/ tg_load
    \/ tg_save

----------------------------------------------------------------------------
(* The state locks import_lock and interval_lock: every with block on them, *)
(* and the device calls and sleeps between the blocks.  The data the        *)
(* branches test is left open: every branch of the code can be taken.       *)

ImportSide == {"import_worker", "import_status", "import_start", "import_stop"}

IntervalSide == {"interval_worker", "interval_status", "interval_start",
                 "interval_stop", "capture"}

LockThreads == ImportSide \cup IntervalSide

\* The with blocks, by the thread that runs them.
SectionLabels(t) ==
    CASE t = "import_worker" ->
            {"nofiles", "reset", "empty", "check", "count", "done_incr",
             "crashed", "finally"}
      [] t = "interval_worker" -> {"init", "check", "caperr", "after", "exit"}
      [] t = "capture" -> {"caperr"}
      [] OTHER -> {"section"}

\* A gphoto2 subprocess call (list-files, get-file, capture with its retry
\* sleep) or a time.sleep.
BlockingLabels == {"list", "get", "capture", "sleep"}

\* Where a thread goes from a label.
After(t, label) ==
    CASE t = "import_worker" ->
            ( CASE label = "list" -> {"nofiles", "reset"}
                [] label = "nofiles" -> {"finally"}
                [] label = "reset" -> {"empty", "loop", "crashed"}
                [] label = "empty" -> {"finally"}
                [] label = "loop" -> {"check", "save"}
                [] label = "check" -> {"get", "save"}
                [] label = "get" -> {"count", "crashed"}
                [] label = "count" -> {"done_incr"}
                [] label = "done_incr" -> {"loop"}
                [] label = "save" -> {"finally"}
                [] label = "crashed" -> {"finally"}
                [] label = "finally" -> {"done"}
                [] OTHER -> {} )
      [] t = "interval_worker" ->
            ( CASE label = "init" -> {"check"}
                [] label = "check" -> {"capture", "exit"}
                [] label = "capture" -> {"caperr", "after"}
                [] label = "caperr" -> {"after"}
                [] label = "after" -> {"exit", "sleep", "check"}
                [] label = "sleep" -> {"check"}
                [] label = "exit" -> {"done"}
                [] OTHER -> {} )
      [] t = "capture" ->
            ( CASE label = "idle" -> {"capture"}
                [] label = "capture" -> {"caperr", "idle"}
                [] label = "caperr" -> {"idle"}
                [] OTHER -> {} )
      [] OTHER ->
            ( CASE label = "idle" -> {"section"}
                [] label = "section" -> {"idle"}
                [] OTHER -> {} )

StateLocksIdle ==
    /\ import_lock = Free
    /\ interval_lock = Free
    /\ lk = [t \in LockThreads |->
               IF t \in {"import_worker", "interval_worker"} THEN "unborn" ELSE "idle"]

HoldsStateLock(t) == import_lock = t \/ interval_lock = t

\* with import_lock: / with interval_lock: is entered.
LockEnter(t) ==
    /\ lk[t] \in SectionLabels(t)
    /\ ~HoldsStateLock(t)
    /\ IF t \in ImportSide
       THEN import_lock = Free /\ import_lock' = t /\ UNCHANGED interval_lock
       ELSE interval_lock = Free /\ interval_lock' = t /\ UNCHANGED import_lock
    /\ UNCHANGED <<lk, notStateLocks>>

\* The with block is left: the lock is released and the thread goes on.
LockLeave(t) ==
    /\ HoldsStateLock(t)
    /\ IF t \in ImportSide
       THEN import_lock' = Free /\ UNCHANGED interval_lock
       ELSE interval_lock' = Free /\ UNCHANGED import_lock
    /\ \E to \in After(t, lk[t]) : lk' = [lk EXCEPT ![t] = to]
    /\ UNCHANGED notStateLocks

\* Mutation: the interval worker keeps interval_lock over its sleep.
Sleep_in_lock(t) ==
    /\ lk[t] \notin SectionLabels(t) \/ (HoldsStateLock(t) /\ lk[t] = "after")
    /\ \E to \in After(t, lk[t]) : lk' = [lk EXCEPT ![t] = to]
    /\ UNCHANGED <<import_lock, interval_lock, notStateLocks>>

\* A step outside the with blocks: a device call or a sleep returns, or
\* plain code runs.
Outside(t) ==
    /\ lk[t] \notin SectionLabels(t)
    /\ \E to \in After(t, lk[t]) : lk' = [lk EXCEPT ![t] = to]
    /\ UNCHANGED <<import_lock, interval_lock, notStateLocks>>

\* import_status(): with import_lock: st = dict(import_state)
lk_import_status_enter == lk["import_status"] = "idle" /\ Outside("import_status")
lk_import_status_lock == LockEnter("import_status")
lk_import_status_leave == LockLeave("import_status")

\* import_stop(): one with import_lock block.
lk_import_stop_enter == lk["import_stop"] = "idle" /\ Outside("import_stop")
lk_import_stop_lock == LockEnter("import_stop")
lk_import_stop_leave == LockLeave("import_stop")

\* interval_status(): the answer is built inside with interval_lock.
lk_interval_status_enter == lk["interval_status"] = "idle" /\ Outside("interval_status")
lk_interval_status_lock == LockEnter("interval_status")
lk_interval_status_leave == LockLeave("interval_status")

\* interval_stop(): with interval_lock: running = False
lk_interval_stop_enter == lk["interval_stop"] = "idle" /\ Outside("interval_stop")
lk_interval_stop_lock == LockEnter("interval_stop")
lk_interval_stop_leave == LockLeave("interval_stop")

\* import_start() / interval_start(): one with block, in which the request
\* is refused or the worker thread is created and started.
StartLeave(t, worker, first) ==
    /\ HoldsStateLock(t)
    /\ IF t \in ImportSide
       THEN import_lock' = Free /\ UNCHANGED interval_lock
       ELSE interval_lock' = Free /\ UNCHANGED import_lock
    /\ \/ lk' = [lk EXCEPT ![t] = "idle"]
       \/ /\ lk[worker] \in {"unborn", "done"}
          /\ lk' = [lk EXCEPT ![t] = "idle", ![worker] = first]
    /\ UNCHANGED notStateLocks

lk_import_start_enter == lk["import_start"] = "idle" /\ Outside("import_start")
lk_import_start_lock == LockEnter("import_start")
lk_import_start_leave == StartLeave("import_start", "import_worker", "list")

lk_interval_start_enter == lk["interval_start"] = "idle" /\ Outside("interval_start")
lk_interval_start_lock == LockEnter("interval_start")
lk_interval_start_leave == StartLeave("interval_start", "interval_worker", "init")

\* _import_worker: its with import_lock blocks, and between them the
\* listing, the cancel test, the get-file call and the config write.
lk_import_worker_lock == LockEnter("import_worker")
lk_import_worker_leave == LockLeave("import_worker")
lk_import_worker_outside == Outside("import_worker")

\* _interval_worker: its with interval_lock blocks, and between them
\* _capture_one under cam_lock and time.sleep(interval_s); a failed
\* _capture_one takes interval_lock to record last_error.
lk_interval_worker_lock == LockEnter("interval_worker")
lk_interval_worker_leave == LockLeave("interval_worker")
lk_interval_worker_outside == Outside("interval_worker")

\* capture(): _capture_one under cam_lock; a failure records last_error
\* under interval_lock.
lk_capture_lock == LockEnter("capture")
lk_capture_leave == LockLeave("capture")
lk_capture_outside == Outside("capture")

NextStateLocks ==
    \/ lk_import_status_enter
    \/ lk_import_status_lock
    \/ lk_import_status_leave
    \/ lk_import_stop_enter
    \/ lk_import_stop_lock
    \/ lk_import_stop_leave
    \/ lk_interval_status_enter
    \/ lk_interval_status_lock
    \/ lk_interval_status_leave
    \/ lk_interval_stop_enter
    \/ lk_interval_stop_lock
    \/ lk_interval_stop_leave
    \/ lk_import_start_enter
    \/ lk_import_start_lock
    \/ lk_import_start_leave
    \/ lk_interval_start_enter
    \/ lk_interval_start_lock
    \/ lk_interval_start_leave
    \/ lk_import_worker_lock
    \/ lk_import_worker_leave
    \/ lk_import_worker_outside
    \/ lk_interval_worker_lock
    \/ lk_interval_worker_leave
    \/ lk_interval_worker_outside
    \/ lk_capture_lock
    \/ lk_capture_leave
    \/ lk_capture_outside

----------------------------------------------------------------------------
(* Stopping a process: _liveview_proc_stop for the live-view hold,          *)
(* live_stream_stop and the finally clause of live_stream's generator for   *)
(* the movie process.  Times are in fifths of a second.                     *)

StopKinds == {"hold", "stream"}

Stoppers == {"live_stop", "live_stream_stop", "generate"}

KindOf(t) == IF t = "live_stop" THEN "hold" ELSE "stream"

\* _liveview_proc.wait(timeout=5)
hold_wait_timeout == 25

\* proc.wait(timeout=0.8)
stream_wait_timeout == 4

WaitTimeout(t) == IF t = "live_stop" THEN hold_wait_timeout ELSE stream_wait_timeout

\* Of the stopper records, proc is the handle the stop found (1: a process,
\* 0: None), elapsed the time spent in wait, expired tells that wait raised
\* TimeoutExpired, and off is what became of the hold stop's _set_liveview(False).
NoStopper == [pc |-> "idle", proc |-> 0, elapsed |-> 0, expired |-> FALSE,
              off |-> "none"]

StopIdle ==
    /\ sg_handle = [k \in StopKinds |-> 0]
    /\ sg_alive = {}
    /\ sg_running = FALSE
    /\ sg_log = << >>
    /\ sg = [t \in Stoppers |-> NoStopper]

Signal(t, sig) ==
    [kind |-> KindOf(t), sig |-> sig, by |-> t, elapsed |-> sg[t].elapsed,
     expired |-> sg[t].expired]

\* A process exits: by itself, or because it was asked to.
sg_exit(k) ==
    /\ k \in sg_alive
    /\ sg_alive' = sg_alive \ {k}
    /\ UNCHANGED <<sg_handle, sg_running, sg_log, sg, notStop>>

\* Time passes for the threads that are in wait(timeout).
sg_tick ==
    /\ \E t \in Stoppers : sg[t].pc = "wait" /\ sg[t].elapsed < WaitTimeout(t)
    /\ sg' = [t \in Stoppers |->
                IF sg[t].pc = "wait" /\ sg[t].elapsed < WaitTimeout(t)
                THEN [sg[t] EXCEPT !.elapsed = sg[t].elapsed + 1]
                ELSE sg[t]]
    /\ UNCHANGED <<sg_handle, sg_alive, sg_running, sg_log, notStop>>

\* _liveview_proc_running(), called by a status query without the lock: a
\* handle whose process has exited is cleared.
sg_reap ==
    /\ sg_handle["hold"] = 1
    /\ "hold" \notin sg_alive
    /\ sg_handle' = [sg_handle EXCEPT !["hold"] = 0]
    /\ sg_running' = FALSE
    /\ UNCHANGED <<sg_alive, sg_log, sg, notStop>>

\* _liveview_proc_stop(): no handle: running = False, return.
live_stop_enter ==
    /\ sg["live_stop"].pc = "idle"
    /\ IF sg_handle["hold"] = 0
       THEN /\ sg_running' = FALSE
            /\ sg' = [sg EXCEPT !["live_stop"].pc = "done"]
       ELSE /\ sg' = [sg EXCEPT !["live_stop"].pc = "terminate", !["live_stop"].proc = 1]
            /\ UNCHANGED sg_running
    /\ UNCHANGED <<sg_handle, sg_alive, sg_log, notStop>>

\* Mutation: the process is killed at once.
live_stop_kills_first ==
    /\ sg["live_stop"].pc = "terminate"
    /\ sg_log' = Append(sg_log, Signal("live_stop", "kill"))
    /\ sg_alive' = sg_alive \ {"hold"}
    /\ sg' = [sg EXCEPT !["live_stop"].pc = "finally"]
    /\ UNCHANGED <<sg_handle, sg_running, notStop>>

\* _liveview_proc.terminate(): the global is read again; None by now, or a
\* failing call, raises into except Exception: pass.
live_stop_terminate ==
    /\ sg["live_stop"].pc = "terminate"
    /\ \/ /\ sg_handle["hold"] = 1
          /\ sg_log' = Append(sg_log, Signal("live_stop", "terminate"))
          /\ sg' = [sg EXCEPT !["live_stop"].pc = "wait"]
       \/ /\ sg' = [sg EXCEPT !["live_stop"].pc = "finally"]
          /\ UNCHANGED sg_log
    /\ UNCHANGED <<sg_handle, sg_alive, sg_running, notStop>>

\* _liveview_proc.wait(timeout=5): returns when the process has exited,
\* raises TimeoutExpired when the time is over and it has not; a handle that
\* is None by now raises into except Exception: pass.
live_stop_wait ==
    /\ sg["live_stop"].pc = "wait"
    /\ IF sg_handle["hold"] = 0
       THEN sg' = [sg EXCEPT !["live_stop"].pc = "finally"]
       ELSE \/ /\ "hold" \notin sg_alive
               /\ sg' = [sg EXCEPT !["live_stop"].pc = "finally"]
            \/ /\ "hold" \in sg_alive
               /\ sg["live_stop"].elapsed = hold_wait_timeout
               /\ sg' = [sg EXCEPT !["live_stop"].pc = "kill", !["live_stop"].expired = TRUE]
    /\ UNCHANGED <<sg_handle, sg_alive, sg_running, sg_log, notStop>>

\* except subprocess.TimeoutExpired: _liveview_proc.kill()
live_stop_kill ==
    /\ sg["live_stop"].pc = "kill"
    /\ IF sg_handle["hold"] = 0
       THEN UNCHANGED <<sg_log, sg_alive>>
       ELSE /\ sg_log' = Append(sg_log, Signal("live_stop", "kill"))
            /\ sg_alive' = sg_alive \ {"hold"}
    /\ sg' = [sg EXCEPT !["live_stop"].pc = "finally"]
    /\ UNCHANGED <<sg_handle, sg_running, notStop>>

\* Mutation: the state is left alone when the terminate did not go through.
live_stop_finally_keeps_state ==
    /\ sg["live_stop"].pc = "finally"
    /\ IF \E k \in 1..Len(sg_log) : sg_log[k].by = "live_stop"
       THEN sg_handle' = [sg_handle EXCEPT !["hold"] = 0] /\ sg_running' = FALSE
       ELSE UNCHANGED <<sg_handle, sg_running>>
    /\ sg' = [sg EXCEPT !["live_stop"].pc = "done"]
    /\ UNCHANGED <<sg_alive, sg_log, notStop>>

\* finally: _liveview_proc = None; running = False; _set_liveview(False)
\* inside try / except Exception: pass: it returns True or False, or its
\* exception is swallowed.
live_stop_finally ==
    /\ sg["live_stop"].pc = "finally"
    /\ sg_handle' = [sg_handle EXCEPT !["hold"] = 0]
    /\ sg_running' = FALSE
    /\ \E off \in {"ok", "no key worked", "raised"} :
          sg' = [sg EXCEPT !["live_stop"].pc = "done", !["live_stop"].off = off]
    /\ UNCHANGED <<sg_alive, sg_log, notStop>>

\* live_stream_stop(): with _live_mjpeg_lock: proc = _live_mjpeg_proc;
\* _live_mjpeg_proc = None; if not proc: return "no stream".
live_stream_stop_enter ==
    /\ sg["live_stream_stop"].pc = "idle"
    /\ sg_handle' = [sg_handle EXCEPT !["stream"] = 0]
    /\ sg' = [sg EXCEPT !["live_stream_stop"].proc = sg_handle["stream"],
                        !["live_stream_stop"].pc =
                            IF sg_handle["stream"] = 0 THEN "done" ELSE "terminate"]
    /\ UNCHANGED <<sg_alive, sg_running, sg_log, notStop>>

\* generate(): the read loop ends (the client went away, or the process
\* closed its output); finally: the global is cleared if it is still proc.
generate_finally ==
    /\ sg["generate"].pc = "streaming"
    /\ sg_handle' = [sg_handle EXCEPT !["stream"] = 0]
    /\ sg' = [sg EXCEPT !["generate"].pc = "terminate"]
    /\ UNCHANGED <<sg_alive, sg_running, sg_log, notStop>>

\* proc.terminate(); a failing call raises into except Exception: pass.
stream_terminate(t) ==
    /\ sg[t].pc = "terminate"
    /\ \/ /\ sg_log' = Append(sg_log, Signal(t, "terminate"))
          /\ sg' = [sg EXCEPT ![t].pc = "wait"]
       \/ /\ sg' = [sg EXCEPT ![t].pc = "off"]
          /\ UNCHANGED sg_log
    /\ UNCHANGED <<sg_handle, sg_alive, sg_running, notStop>>

\* proc.wait(timeout=0.8)
stream_wait(t) ==
    /\ sg[t].pc = "wait"
    /\ \/ /\ "stream" \notin sg_alive
          /\ sg' = [sg EXCEPT ![t].pc = "off"]
       \/ /\ "stream" \in sg_alive
          /\ sg[t].elapsed = stream_wait_timeout
          /\ sg' = [sg EXCEPT ![t].pc = "kill", ![t].expired = TRUE]
    /\ UNCHANGED <<sg_handle, sg_alive, sg_running, sg_log, notStop>>

\* except subprocess.TimeoutExpired: proc.kill()
stream_kill(t) ==
    /\ sg[t].pc = "kill"
    /\ sg_log' = Append(sg_log, Signal(t, "kill"))
    /\ sg_alive' = sg_alive \ {"stream"}
    /\ sg' = [sg EXCEPT ![t].pc = "off"]
    /\ UNCHANGED <<sg_handle, sg_running, notStop>>

\* _set_liveview(False) inside try / except Exception: pass.
stream_off(t) ==
    /\ sg[t].pc = "off"
    /\ sg' = [sg EXCEPT ![t].pc = "done"]
    /\ UNCHANGED <<sg_handle, sg_alive, sg_running, sg_log, notStop>>

NextStops ==
    \/ \E k \in StopKinds : sg_exit(k)
    \/ sg_tick
    \/ sg_reap
    \/ live_stop_enter
    \/ live_stop_terminate
    \/ live_stop_wait
    \/ live_stop_kill
    \/ live_stop_finally
    \/ live_stream_stop_enter
    \/ generate_finally
    \/ \E t \in {"live_stream_stop", "generate"} : stream_terminate(t)
    \/ \E t \in {"live_stream_stop", "generate"} : stream_wait(t)
    \/ \E t \in {"live_stream_stop", "generate"} : stream_kill(t)
    \/ \E t \in {"live_stream_stop", "generate"} : stream_off(t)

----------------------------------------------------------------------------
(* Specifications: one per component, the other components left idle.       *)

InitDevice ==
    /\ DeviceIdle /\ RetryIdle /\ DemuxIdle /\ ImportIdle
    /\ JobsIdle /\ IntervalIdle /\ StopsIdle /\ CooldownIdle
    /\ HoldIdle /\ MjpegIdle /\ MarksIdle /\ StateLocksIdle
    /\ StopIdle /\ CacheIdle /\ WaitIdle /\ StartsIdle
    /\ PathsIdle

SpecDevice == InitDevice /\ [][NextDevice]_vars

InitRetry ==
    /\ DeviceIdle /\ DemuxIdle /\ ImportIdle /\ JobsIdle
    /\ IntervalIdle /\ StopsIdle /\ CooldownIdle /\ HoldIdle
    /\ MjpegIdle /\ MarksIdle /\ StateLocksIdle /\ StopIdle
    /\ CacheIdle /\ WaitIdle /\ StartsIdle /\ PathsIdle
    /\ gw_script \in Scripts
    /\ retry_op = "none"
    /\ retry_res = NoResult

SpecRetry == InitRetry /\ [][NextRetry]_vars

InitDemux ==
    /\ DeviceIdle /\ RetryIdle /\ ImportIdle /\ JobsIdle
    /\ IntervalIdle /\ StopsIdle /\ CooldownIdle /\ HoldIdle
    /\ MjpegIdle /\ MarksIdle /\ StateLocksIdle /\ StopIdle
    /\ CacheIdle /\ WaitIdle /\ StartsIdle /\ PathsIdle
    /\ mj_stream \in Streams
    /\ mj_pos = 0
    /\ mj_closed = FALSE
    /\ buf = << >>
    /\ frames = << >>

SpecDemux == InitDemux /\ [][NextDemux]_vars

InitImport ==
    /\ DeviceIdle /\ RetryIdle /\ DemuxIdle /\ JobsIdle
    /\ IntervalIdle /\ StopsIdle /\ CooldownIdle /\ HoldIdle
    /\ MjpegIdle /\ MarksIdle /\ StateLocksIdle /\ StopIdle
    /\ CacheIdle /\ WaitIdle /\ StartsIdle /\ PathsIdle
    /\ cam_files \in Listings
    /\ imp_last_index \in 0..MaxIndex
    /\ import_state = ImportStateInit
    /\ import_cancel = FALSE
    /\ iw = [w \in ImportWorkers |-> NoWorker]

SpecImport == InitImport /\ [][NextImport]_vars

\* A card holding JobFiles files, none or all of them imported already.
InitImportJobs ==
    /\ DeviceIdle /\ RetryIdle /\ DemuxIdle /\ JobsIdle
    /\ IntervalIdle /\ StopsIdle /\ CooldownIdle /\ HoldIdle
    /\ MjpegIdle /\ MarksIdle /\ StateLocksIdle /\ StopIdle
    /\ CacheIdle /\ WaitIdle /\ StartsIdle /\ PathsIdle
    /\ cam_files = Ascending(1..JobFiles)
    /\ imp_last_index \in {0, JobFiles}
    /\ import_state = ImportStateInit
    /\ import_cancel = FALSE
    /\ iw = [w \in ImportWorkers |-> NoWorker]

SpecImportJobs == InitImportJobs /\ [][NextImportJobs]_vars

\* Any card within the bounds, any high-water mark.
InitImportFailures ==
    /\ DeviceIdle /\ RetryIdle /\ DemuxIdle /\ JobsIdle
    /\ IntervalIdle /\ StopsIdle /\ CooldownIdle /\ HoldIdle
    /\ MjpegIdle /\ MarksIdle /\ StateLocksIdle /\ StopIdle
    /\ CacheIdle /\ WaitIdle /\ StartsIdle /\ PathsIdle
    /\ cam_files \in Listings
    /\ imp_last_index \in 0..MaxIndex
    /\ import_state = ImportStateInit
    /\ import_cancel = FALSE
    /\ iw = [w \in ImportWorkers |-> NoWorker]

SpecImportFailures == InitImportFailures /\ [][NextImportFailures]_vars

InitInterval ==
    /\ DeviceIdle /\ RetryIdle /\ DemuxIdle /\ ImportIdle
    /\ JobsIdle /\ IntervalIdle /\ StopsIdle /\ CooldownIdle
    /\ HoldIdle /\ MjpegIdle /\ MarksIdle /\ StateLocksIdle
    /\ StopIdle /\ CacheIdle /\ WaitIdle /\ StartsIdle
    /\ PathsIdle

SpecInterval == InitInterval /\ [][NextInterval]_vars

InitIntervalStops ==
    /\ DeviceIdle /\ RetryIdle /\ DemuxIdle /\ ImportIdle
    /\ JobsIdle /\ IntervalIdle /\ StopsIdle /\ CooldownIdle
    /\ HoldIdle /\ MjpegIdle /\ MarksIdle /\ StateLocksIdle
    /\ StopIdle /\ CacheIdle /\ WaitIdle /\ StartsIdle
    /\ PathsIdle

SpecIntervalStops == InitIntervalStops /\ [][NextIntervalStops]_vars

InitIntervalErrors ==
    /\ DeviceIdle /\ RetryIdle /\ DemuxIdle /\ ImportIdle
    /\ JobsIdle /\ IntervalIdle /\ StopsIdle /\ CooldownIdle
    /\ HoldIdle /\ MjpegIdle /\ MarksIdle /\ StateLocksIdle
    /\ StopIdle /\ CacheIdle /\ WaitIdle /\ StartsIdle
    /\ PathsIdle

SpecIntervalErrors == InitIntervalErrors /\ [][NextIntervalErrors]_vars

InitCooldown ==
    /\ DeviceIdle /\ RetryIdle /\ DemuxIdle /\ ImportIdle
    /\ JobsIdle /\ IntervalIdle /\ StopsIdle /\ CooldownIdle
    /\ HoldIdle /\ MjpegIdle /\ MarksIdle /\ StateLocksIdle
    /\ StopIdle /\ CacheIdle /\ WaitIdle /\ StartsIdle
    /\ PathsIdle

SpecCooldown == InitCooldown /\ [][NextCooldown]_vars

\* No manual capture so far, or one accepted half a second ago.
InitCooldownPaths ==
    /\ DeviceIdle /\ RetryIdle /\ DemuxIdle /\ ImportIdle
    /\ JobsIdle /\ IntervalIdle /\ StopsIdle /\ HoldIdle
    /\ MjpegIdle /\ MarksIdle /\ StateLocksIdle /\ StopIdle
    /\ CacheIdle /\ WaitIdle /\ StartsIdle /\ PathsIdle
    /\ now = MIN_CAPTURE_GAP
    /\ LAST_CAPTURE_TS \in {0, MIN_CAPTURE_GAP - 5}
    /\ cq = [r \in CaptureRequests |-> NoRequest]
    /\ stamps = IF LAST_CAPTURE_TS = 0 THEN << >> ELSE <<LAST_CAPTURE_TS>>
    /\ starts = stamps

SpecCooldownPaths == InitCooldownPaths /\ [][NextCooldownPaths]_vars

\* A card holding JobFiles files, none of them imported.
InitStartRequests ==
    /\ DeviceIdle /\ RetryIdle /\ DemuxIdle /\ JobsIdle
    /\ IntervalIdle /\ StopsIdle /\ CooldownIdle /\ HoldIdle
    /\ MjpegIdle /\ MarksIdle /\ StateLocksIdle /\ StopIdle
    /\ CacheIdle /\ WaitIdle /\ StartsIdle /\ PathsIdle
    /\ cam_files = Ascending(1..JobFiles)
    /\ imp_last_index = 0
    /\ import_state = ImportStateInit
    /\ import_cancel = FALSE
    /\ iw = [w \in ImportWorkers |-> NoWorker]

SpecStartRequests == InitStartRequests /\ [][NextStartRequests]_vars

InitHold ==
    /\ DeviceIdle /\ RetryIdle /\ DemuxIdle /\ ImportIdle
    /\ JobsIdle /\ IntervalIdle /\ StopsIdle /\ CooldownIdle
    /\ HoldIdle /\ MjpegIdle /\ MarksIdle /\ StateLocksIdle
    /\ StopIdle /\ CacheIdle /\ WaitIdle /\ StartsIdle
    /\ PathsIdle

SpecHold == InitHold /\ [][NextHold]_vars

InitHoldWait ==
    /\ DeviceIdle /\ RetryIdle /\ DemuxIdle /\ ImportIdle
    /\ JobsIdle /\ IntervalIdle /\ StopsIdle /\ CooldownIdle
    /\ HoldIdle /\ MjpegIdle /\ MarksIdle /\ StateLocksIdle
    /\ StopIdle /\ CacheIdle /\ WaitIdle /\ StartsIdle
    /\ PathsIdle

SpecHoldWait == InitHoldWait /\ [][NextHoldWait]_vars

\* A card holding JobFiles files, none of them imported.
InitPersistence ==
    /\ DeviceIdle /\ RetryIdle /\ DemuxIdle /\ JobsIdle
    /\ IntervalIdle /\ StopsIdle /\ CooldownIdle /\ HoldIdle
    /\ MjpegIdle /\ MarksIdle /\ StateLocksIdle /\ StopIdle
    /\ CacheIdle /\ WaitIdle /\ StartsIdle /\ PathsIdle
    /\ cam_files = Ascending(1..JobFiles)
    /\ imp_last_index = 0
    /\ import_state = ImportStateInit
    /\ import_cancel = FALSE
    /\ iw = [w \in ImportWorkers |-> NoWorker]

SpecPersistence == InitPersistence /\ [][NextPersistence]_vars

InitStatusCache ==
    /\ DeviceIdle /\ RetryIdle /\ DemuxIdle /\ ImportIdle
    /\ JobsIdle /\ IntervalIdle /\ StopsIdle /\ CooldownIdle
    /\ HoldIdle /\ MjpegIdle /\ MarksIdle /\ StateLocksIdle
    /\ StopIdle /\ CacheIdle /\ WaitIdle /\ StartsIdle
    /\ PathsIdle

SpecStatusCache == InitStatusCache /\ [][NextStatusCache]_vars

InitMjpeg ==
    /\ DeviceIdle /\ RetryIdle /\ DemuxIdle /\ ImportIdle
    /\ JobsIdle /\ IntervalIdle /\ StopsIdle /\ CooldownIdle
    /\ HoldIdle /\ MjpegIdle /\ MarksIdle /\ StateLocksIdle
    /\ StopIdle /\ CacheIdle /\ WaitIdle /\ StartsIdle
    /\ PathsIdle

SpecMjpeg == InitMjpeg /\ [][NextMjpeg]_vars

\* Any card within the bounds, preview.json at its defaults.
InitMarks ==
    /\ DeviceIdle /\ RetryIdle /\ DemuxIdle /\ ImportIdle
    /\ JobsIdle /\ IntervalIdle /\ StopsIdle /\ CooldownIdle
    /\ HoldIdle /\ MjpegIdle /\ StateLocksIdle /\ StopIdle
    /\ CacheIdle /\ WaitIdle /\ StartsIdle /\ PathsIdle
    /\ preview_conf = PreviewConfDefault
    /\ card \in Cards
    /\ pv = [t \in SyncThreads |-> NoSync]
    /\ tg = NoToggle

SpecMarks == InitMarks /\ [][NextMarks]_vars

\* A hold process and a movie process, each started or not; a started
\* process may have exited already, and the movie process has its generator.
InitStops ==
    /\ DeviceIdle /\ RetryIdle /\ DemuxIdle /\ ImportIdle
    /\ JobsIdle /\ IntervalIdle /\ StopsIdle /\ CooldownIdle
    /\ HoldIdle /\ MjpegIdle /\ MarksIdle /\ StateLocksIdle
    /\ CacheIdle /\ WaitIdle /\ StartsIdle /\ PathsIdle
    /\ sg_handle \in [StopKinds -> {0, 1}]
    /\ sg_alive \in SUBSET {k \in StopKinds : sg_handle[k] = 1}
    /\ sg_running = (sg_handle["hold"] = 1)
    /\ sg_log = << >>
    /\ sg = [t \in Stoppers |->
               IF t = "generate" /\ sg_handle["stream"] = 1
               THEN [NoStopper EXCEPT !.pc = "streaming", !.proc = 1]
               ELSE NoStopper]

SpecStops == InitStops /\ [][NextStops]_vars

InitStateLocks ==
    /\ DeviceIdle /\ RetryIdle /\ DemuxIdle /\ ImportIdle
    /\ JobsIdle /\ IntervalIdle /\ StopsIdle /\ CooldownIdle
    /\ HoldIdle /\ MjpegIdle /\ MarksIdle /\ StateLocksIdle
    /\ StopIdle /\ CacheIdle /\ WaitIdle /\ StartsIdle
    /\ PathsIdle

SpecStateLocks == InitStateLocks /\ [][NextStateLocks]_vars

----------------------------------------------------------------------------
(* Claims.                                                                  *)

\* C1: at most one device-touching gphoto2 call is in flight at any time, and
\* every thread with such a call in flight holds cam_lock.
C1_OneDeviceCallUnderLock ==
    /\ Cardinality(InFlight) <= 1
    /\ \A t \in InFlight : cam_lock = t

\* C18: every operation that acquires cam_lock releases it on every exit
\* path: no thread ever waits for cam_lock while it is the holder, so a
\* config set whose direct value-set is rejected goes on to the choice-index
\* fallback and completes instead of blocking forever.
C18_LockAlwaysReleased ==
    \A t \in Threads : ~(cam_lock = t /\ At(t, "cfg_fallback_blocked"))

\* C25: the delay between the attempts of a retried device operation is
\* spent inside the caller's locked section: a card sync that waits to
\* retry its get-file still holds cam_lock, so no other device operation
\* can start before the retried operation has finished.
C25_RetryDelayUnderLock ==
    (At("sync", "sync_wait_get") /\ sync_i > 0) => cam_lock = "sync"

\* The failures each path retries: USB claim failure, device busy and PTP
\* I/O error on both; the capture path also any other "busy" or "i/o error".
TransientFor(path) ==
    IF path = "capture"
    THEN {"usb_claim", "resource_busy", "ptp_busy", "ptp_io", "io_error", "camera_busy"}
    ELSE {"usb_claim", "resource_busy", "ptp_busy", "ptp_io"}

\* The number of leading transient failures of the script.
RECURSIVE LeadingTransient(_, _, _)
LeadingTransient(script, k, path) ==
    IF k <= Len(script) /\ script[k] \in TransientFor(path)
    THEN LeadingTransient(script, k + 1, path)
    ELSE k - 1

\* The script fails with a transient error N times and then succeeds.
FailsThenSucceeds(script, path) ==
    GatewayCall(script, LeadingTransient(script, 1, path) + 1) = OK

FirstNonTransient(script, path) ==
    /\ Len(script) >= 1
    /\ script[1] # OK
    /\ script[1] \notin TransientFor(path)

C23_ImportTransferRetried ==
    (retry_op = "import" /\ FailsThenSucceeds(gw_script, "import")) =>
        LET N == LeadingTransient(gw_script, 1, "import") IN
        /\ retry_res.ok <=> (N < 3)
        /\ retry_res.calls = Min(N + 1, 3)

\* C4: for every byte stream and every way of splitting it into chunks, the
\* frames emitted once the source has closed are the frames emitted when the
\* whole stream arrives as a single chunk; before that, the frames emitted
\* are those of the bytes read so far arriving as a single chunk.
C4_ChunkIndependence ==
    /\ frames = drain(SubSeq(mj_stream, 1, mj_pos), << >>).frames
    /\ mj_closed => frames = drain(mj_stream, << >>).frames

C4_Witness ==
    /\ mj_closed
    /\ Len(frames) = 2
    /\ Len(mj_stream) = 8

\* Whether marker m stands at (1-based) position i of s.
MarkerAt(s, i, m) == i + 1 <= Len(s) /\ s[i] = m[1] /\ s[i + 1] = m[2]

\* The first position >= from at which marker m stands in s, or 0.
FirstMarker(s, from, m) ==
    IF \E i \in from..Len(s) : MarkerAt(s, i, m)
    THEN CHOOSE i \in from..Len(s) :
            MarkerAt(s, i, m) /\ \A h \in from..(i - 1) : ~MarkerAt(s, h, m)
    ELSE 0

\* The complete frames of s from position from on: each runs from the first
\* SOI at or after the end of the previous frame to the first EOI after it.
RECURSIVE CompleteFrames(_, _)
CompleteFrames(s, from) ==
    LET i == FirstMarker(s, from, SOI) IN
    IF i = 0 THEN << >>
    ELSE LET j == FirstMarker(s, i + 2, EOI) IN
         IF j = 0 THEN << >>
         ELSE <<SubSeq(s, i, j + 1)>> \o CompleteFrames(s, j + 2)

\* C5: every emitted frame starts with FFD8 and ends with FFD9 and is the
\* span from the first SOI at or after the end of the previous frame to the
\* first EOI after that SOI, in stream order; once the source has closed the
\* frames emitted are the complete frames of the stream, a trailing
\* incomplete frame being dropped.
C5_Framing ==
    /\ \A k \in 1..Len(frames) :
          /\ Len(frames[k]) >= 4
          /\ SubSeq(frames[k], 1, 2) = SOI
          /\ SubSeq(frames[k], Len(frames[k]) - 1, Len(frames[k])) = EOI
    /\ frames = CompleteFrames(SubSeq(mj_stream, 1, mj_pos), 1)
    /\ mj_closed => (frames = CompleteFrames(mj_stream, 1) /\ buf = << >>)

\* A frame was emitted and the stream ended inside a second, incomplete one.
C5_Witness ==
    /\ mj_closed
    /\ Len(frames) = 1
    /\ Len(mj_stream) = 8
    /\ SubSeq(mj_stream, 1, 4) = <<FF, D8, FF, D9>>
    /\ SubSeq(mj_stream, 5, 6) = SOI

Range(s) == {s[k] : k \in 1..Len(s)}

SeqMax(s) == CHOOSE m \in Range(s) : \A x \in Range(s) : x <= m

\* The worker has made its selection from a non-empty listing.
HasSelected(w) ==
    iw[w].pc \notin {"unborn", "load", "list"} /\ iw[w].files # << >>

\* The selection of C6: in mode New exactly the listed files whose index is
\* strictly greater than the persisted mark, in mode All every listed file.
SelectionRight(w) ==
    HasSelected(w) =>
        /\ iw[w].mode = "new" =>
              iw[w].selected = Ascending({f \in Range(iw[w].files) : f > iw[w].last_idx})
        /\ iw[w].mode = "all" => iw[w].selected = iw[w].files

\* The worker finished a run that was not cancelled, made a non-empty
\* selection, met no transfer error and no failed config write, with no
\* other job around.
CleanRun(w) ==
    /\ iw[w].pc = "done"
    /\ iw[w].undisturbed
    /\ HasSelected(w)
    /\ iw[w].selected # << >>
    /\ ~iw[w].cancelled
    /\ import_state.errors = 0
    /\ iw[w].saved # "failed"

C7_CancelledKeepsMark ==
    \A w \in ImportWorkers :
        (iw[w].cancelled /\ iw[w].undisturbed) =>
            /\ iw[w].k < Len(iw[w].selected)
            /\ imp_last_index = iw[w].last_idx
            /\ import_state.done = iw[w].transfers
            /\ import_state.done = iw[w].k

\* Cancelled after 1 of 3 selected files, the one transfer having succeeded.
C7_Witness ==
    \E w \in ImportWorkers :
        /\ iw[w].pc = "done"
        /\ iw[w].cancelled
        /\ iw[w].undisturbed
        /\ Len(iw[w].selected) = 3
        /\ import_state.done = 1
        /\ import_state.errors = 0
        /\ iw[w].max_idx > iw[w].last_idx

\* C15: under every interleaving of import start and stop requests at most
\* one import worker is active at any time: a start request issued while an
\* import worker has not finished is refused.
C15_OneImportWorker ==
    Cardinality({w \in ImportWorkers : Active(w)}) <= 1

\* C19: a stop request accepted while a job is running does not interrupt
\* the transfer in flight, and after it the worker begins at most one more
\* file transfer before it ends.
C19_AtMostOneMoreTransfer ==
    \A w \in ImportWorkers :
        stop_at[w] >= 0 => iw[w].transfers - stop_at[w] <= 1

\* The worker has left its loop over a non-empty selection without taking a
\* cancel branch.
LoopLeftUncancelled(w) ==
    /\ iw[w].pc \in {"save", "finally", "done"}
    /\ HasSelected(w)
    /\ iw[w].selected # << >>
    /\ ~iw[w].cancelled

SystemicFailure(w) ==
    \/ iw[w].outcome = "crashed"
    \/ iw[w].pc \in {"finally", "done"} /\ iw[w].files = << >>

\* C34: a systemic import failure marks the whole job failed and stops it:
\* when the listing is empty or fails, or the worker raises an exception,
\* the job ends with running = false, last_error set and finished_at set,
\* and the worker makes no further file transfer. The job is one that runs
\* by itself.
C34_SystemicFailureStopsJob ==
    [][\A w \in ImportWorkers :
          /\ (iw'[w].pc = "done" /\ SystemicFailure(w)' /\ iw'[w].undisturbed) =>
                /\ ~import_state'.running
                /\ import_state'.last_error # "none"
                /\ import_state'.finished
          /\ SystemicFailure(w) => iw'[w].transfers = iw[w].transfers]_vars

\* The worker raised in its second transfer, after one file was imported.
C34_Witness ==
    /\ iw["w1"].pc = "done"
    /\ iw["w1"].outcome = "crashed"
    /\ iw["w1"].transfers = 1
    /\ import_state.imported = 1
    /\ import_state.total >= 2
    /\ import_state.last_error = "worker crashed"
    /\ ~import_state.running

CounterSum(s) == s.imported + s.skipped + s.errors

\* The counters of a status snapshot agree with each other.
CountersConsistent(s) ==
    /\ s.done <= s.total
    /\ s.done <= CounterSum(s)
    /\ CounterSum(s) <= s.done + 1

\* C39: the import progress counters are consistent in every status
\* snapshot: done <= total, done <= imported + skipped + errors <= done + 1,
\* each processed file increments exactly one of imported, skipped and
\* errors, and when a job that was not cancelled has finished its loop
\* done = total = imported + skipped + errors.
C39_CountersConsistent ==
    [][/\ CountersConsistent(import_state')
       /\ \A w \in ImportWorkers :
             /\ (iw[w].pc = "count" /\ iw'[w].pc = "done_incr") =>
                   CounterSum(import_state') = CounterSum(import_state) + 1
             /\ (iw[w].pc = "done_incr" /\ iw'[w].pc = "loop") =>
                   import_state'.done = import_state.done + 1
             /\ (iw[w].pc = "loop" /\ iw'[w].pc = "save" /\ ~iw'[w].cancelled) =>
                   /\ import_state'.done = import_state'.total
                   /\ CounterSum(import_state') = import_state'.total]_vars

\* The job of worker w has ended, and no other interval request was handled
\* while it ran.
QuietJobDone(w) == ivw[w].pc = "done" /\ ivw[w].quiet

\* C8: an interval job started with count n > 0 and interval 0, all of whose
\* captures succeed, makes exactly n capture attempts with no sleep between
\* them and ends with remaining = 0 and running = False. The job is one that
\* runs by itself: no interval stop or start request is handled meanwhile.
C8_AllCapturesThenDone ==
    \A w \in IntervalWorkers :
        /\ (ivw[w].quiet /\ ivw[w].interval_s = 0) => ivw[w].sleeps = 0
        /\ (QuietJobDone(w) /\ ivw[w].interval_s = 0 /\ ivw[w].failed_at = 0) =>
              /\ ivw[w].attempts = ivw[w].count
              /\ ivw[w].sleeps = 0
              /\ interval_state.remaining = 0
              /\ ~interval_state.running

C8_Witness ==
    \E w \in IntervalWorkers :
        /\ QuietJobDone(w)
        /\ ivw[w].interval_s = 0
        /\ ivw[w].count = 3
        /\ ivw[w].failed_at = 0
        /\ ivw[w].attempts = 3

\* The 2nd capture of a job started with count 3 failed.
SecondOfThreeFailed(w) ==
    QuietJobDone(w) /\ ivw[w].count = 3 /\ ivw[w].failed_at = 2

\* C9 as stated: if the 2nd capture of a count-3 job fails, the job stops
\* with remaining = 1 and running = False, the error is in last_error and no
\* 3rd attempt occurs.
C9_SecondFailureLeavesOne ==
    \A w \in IntervalWorkers :
        SecondOfThreeFailed(w) =>
            /\ interval_state.remaining = 1
            /\ ~interval_state.running
            /\ interval_state.last_error # NoError
            /\ ivw[w].attempts = 2

\* C9 amended: the job stops with remaining = 2 (only the successful first
\* capture was counted), running = False, the error in last_error and no 3rd
\* attempt.
C9_SecondFailureLeavesTwo ==
    \A w \in IntervalWorkers :
        SecondOfThreeFailed(w) =>
            /\ interval_state.remaining = 2
            /\ ~interval_state.running
            /\ interval_state.last_error \in Errors
            /\ ivw[w].attempts = 2

C9_Witness ==
    \E w \in IntervalWorkers :
        /\ SecondOfThreeFailed(w)
        /\ ivw[w].interval_s = 0
        /\ interval_state.last_error = "no_such_file"

\* C14: under every interleaving of interval start and stop requests at most
\* one interval worker is active at any time: a start request issued while
\* an accepted job has not finished is rejected.
C14_OneIntervalWorker ==
    Cardinality({w \in IntervalWorkers : IvActive(w)}) <= 1

\* C26: an interval job does not sleep once its count is exhausted: a worker
\* of a job running by itself is in time.sleep only while captures remain.
C26_NoSleepWhenExhausted ==
    \A w \in IntervalWorkers :
        (ivw[w].pc = "sleeping" /\ ivw[w].quiet) => interval_state.remaining > 0

\* C27: a stop request handled at any time after the start request of a job
\* was accepted, also before the worker has initialised its state, cancels
\* the job: the worker begins at most one further capture.
C27_StopCancelsJob ==
    \A w \in IntervalWorkers :
        iv_stop_at[w] >= 0 => ivw[w].attempts - iv_stop_at[w] <= 1

\* C33: the last_error of the interval status describes the interval job
\* only: when a job finishes, last_error is set if and only if one of the
\* job's own captures failed, whatever manual captures and test shots did
\* while the job ran.
C33_LastErrorOfJobOnly ==
    [][\A w \in StopWorkers :
          (ivw[w].pc = "exit" /\ ivw'[w].pc = "done") =>
              ((interval_state'.last_error # NoError) <=> (ivw[w].failed_at # 0))]_vars

\* C40: in every reachable state of the intervalometer, under any
\* interleaving of start, stop and status requests, 0 <= remaining <= total,
\* remaining decreases by exactly one per successful capture, and the
\* capture attempts made for a job never exceed its count.
C40_RemainingWithinTotal ==
    [][/\ 0 <= interval_state'.remaining
       /\ interval_state'.remaining <= interval_state'.total
       /\ \A w \in IntervalWorkers :
             /\ ivw'[w].attempts <= ivw'[w].count
             /\ (ivw[w].pc = "after" /\ ivw'[w].pc # "after") =>
                   interval_state'.remaining =
                      IF ivw[w].ok THEN interval_state.remaining - 1
                      ELSE interval_state.remaining]_vars

\* C10: for any sequence of possibly concurrent manual capture requests, the
\* device capture of a request does not start until at least
\* MIN_CAPTURE_GAP (1.2 s) after the timestamp recorded for the previous
\* manual capture, and the recorded timestamps of consecutive manual
\* captures are at least MIN_CAPTURE_GAP apart.
C10_CooldownGap ==
    /\ \A k \in 2..Len(starts) : starts[k] - stamps[k - 1] >= MIN_CAPTURE_GAP
    /\ \A k \in 2..Len(stamps) : stamps[k] - stamps[k - 1] >= MIN_CAPTURE_GAP

\* The second request arrived within the gap, slept for the remainder and
\* began its capture exactly MIN_CAPTURE_GAP after the first timestamp.
C10_Witness ==
    /\ Len(starts) >= 2
    /\ starts[2] - stamps[1] = MIN_CAPTURE_GAP
    /\ \E r \in CaptureRequests :
          /\ cq[r].pc = "capturing"
          /\ cq[r].slept
          /\ cq[r].t_read < stamps[1] + MIN_CAPTURE_GAP

\* C24: the device lock is never held across a sleep or wait longer than one
\* retry delay: a request that sleeps while it holds cam_lock sleeps for at
\* most the retry delay.
C24_NoLongSleepUnderLock ==
    \A r \in CaptureRequests :
        (cam_lock = r /\ cq[r].pc = "sleeping") =>
            cq[r].wake - cq[r].t_read <= retry_delay

\* C11: a hold start called right after a successful hold start, with no
\* stop between them and the first process still alive, returns success
\* without spawning, and exactly one hold process is alive when it returns.
C11_IdempotentStart ==
    lv_row.second =>
        /\ lv_row.ret
        /\ ~lv_row.spawned
        /\ lv_row.n_alive = 1

\* A hold process is alive, and neither the handle nor a start that is about
\* to assign the handle refers to it.
Orphaned(p) ==
    /\ p \in lv_alive
    /\ lv_proc # p
    /\ ~(hq["lv_start"].pc = "assign" /\ hq["lv_start"].p = p)

\* C12: under every interleaving of hold start, stop, status and capture
\* requests at most one hold process is alive, and the supervisor holds the
\* handle of every hold process that is alive.
C12_OneHoldNoOrphan ==
    /\ Cardinality(lv_alive) <= 1
    /\ \A p \in lv_alive : ~Orphaned(p)

\* C16: every hold process alive when a manual capture takes cam_lock has
\* been stopped by the time the capture device call is issued.
C16_HoldStoppedBeforeCapture ==
    hq["lv_capture"].pc = "capturing" =>
        hq["lv_capture"].at_a \cap hq["lv_capture"].at_b = {}

\* C17: every hold process alive when an import job is started has been
\* stopped by the time the job issues its first device call.
C17_HoldStoppedBeforeImport ==
    hq["lv_import"].pc = "listed" =>
        hq["lv_import"].at_a \cap hq["lv_import"].at_b = {}

\* C30: once the hold process has exited on its own, a live status query
\* answers running = false, having cleared the handle and the running flag
\* first: with no hold process alive, a query that has found a handle ends
\* only through the step that clears both.
C30_LazyReap ==
    [][(/\ lv_alive = {}
        /\ hq["lv_status"].pc \in {"poll", "clear"}
        /\ hq'["lv_status"].pc = "idle") =>
            /\ hq["lv_status"].pc = "clear"
            /\ lv_proc' = 0
            /\ ~lv_running']_vars

\* C38: while the device call of a manual capture is in flight no hold
\* process is alive: no hold start takes effect between the capture's
\* stop-hold step and the end of the capture.
C38_NoHoldDuringCapture ==
    hq["lv_capture"].pc = "capturing" => lv_alive = {}

\* C13: at most one movie-capture process exists at any time, and every one
\* that is alive is the one _live_mjpeg_proc refers to (or the one its
\* generator is about to register).
C13_OneStream ==
    /\ Cardinality(mjpeg_alive) <= 1
    /\ \A p \in mjpeg_alive :
          \/ live_mjpeg_proc = p
          \/ \E s \in StreamRequests : sq[s].pc = "register" /\ sq[s].proc = p


\* C20: the persisted high-water marks (last_index and last_ts of
\* preview.json, last_index of import.json) never decrease, whatever the
\* interleaving of card-sync runs, import jobs and preview-config toggles.
C20_MarksNeverDecrease ==
    [][/\ preview_conf'.last_index >= preview_conf.last_index
       /\ preview_conf'.last_ts >= preview_conf.last_ts
       /\ imp_last_index' >= imp_last_index]_vars


\* A thread waits to enter a with block on a state lock.
WaitsForStateLock(t) == lk[t] \in SectionLabels(t) /\ ~HoldsStateLock(t)

\* C21: import_lock and interval_lock are never held by a thread that is in
\* a device subprocess call, a sleep or a wait for a job: the holder is in a
\* with block whose next step releases the lock, so a status query that
\* waits for the lock can always go on.
C21_StateLocksHeldBriefly ==
    \A t \in LockThreads :
        HoldsStateLock(t) =>
            /\ lk[t] \in SectionLabels(t)
            /\ lk[t] \notin BlockingLabels
            /\ ENABLED (LockLeave(t) \/ StartLeave(t, "import_worker", "list")
                          \/ StartLeave(t, "interval_worker", "init"))

\* Both status queries wait for their lock while the import worker counts a
\* transfer and the interval worker ends an iteration.
C21_Witness ==
    /\ WaitsForStateLock("import_status")
    /\ WaitsForStateLock("interval_status")
    /\ import_lock = "import_worker"
    /\ interval_lock = "interval_worker"
    /\ lk["import_worker"] = "count"
    /\ lk["interval_worker"] = "after"


\* C28: a force-kill is sent only after the same stop sent a graceful
\* terminate to the process and its bounded wait (5 s for the hold, 0.8 s
\* for the stream) expired with the process still alive; a stop that finds
\* no process sends no signal.
C28_TerminateBeforeKill ==
    /\ \A k \in 1..Len(sg_log) :
          sg_log[k].sig = "kill" =>
              /\ sg_log[k].expired
              /\ sg_log[k].elapsed = (IF sg_log[k].kind = "hold" THEN 25 ELSE 4)
              /\ \E j \in 1..(k - 1) :
                    /\ sg_log[j].sig = "terminate"
                    /\ sg_log[j].by = sg_log[k].by
                    /\ sg_log[j].kind = sg_log[k].kind
    /\ \A t \in {"live_stop", "live_stream_stop"} :
          (sg[t].pc = "done" /\ sg[t].proc = 0) =>
              \A k \in 1..Len(sg_log) : sg_log[k].by # t

\* The hold process ignored the terminate for the whole 5 s and was then
\* killed; the stream stop found no process and sent nothing.
C28_Witness ==
    /\ \E k \in 1..Len(sg_log) :
          /\ sg_log[k].sig = "kill"
          /\ sg_log[k].by = "live_stop"
          /\ sg_log[k].elapsed = 25
    /\ sg["live_stream_stop"].pc = "done"
    /\ sg["live_stream_stop"].proc = 0

\* C29: when a live-view hold stop has returned, the supervisor is idle (no
\* handle, running = false) on every path, also when terminate or the
\* live-view-off call failed; the call ends by returning, never with an
\* exception.
C29_StopLeavesIdle ==
    sg["live_stop"].pc \in {"done", "failed"} =>
        /\ sg["live_stop"].pc = "done"
        /\ sg_handle["hold"] = 0
        /\ ~sg_running

\* The stop returned after a terminate that failed and a live-view-off call
\* that raised: no signal was sent and the process is still alive.
C29_Witness ==
    /\ sg["live_stop"].pc = "done"
    /\ sg["live_stop"].proc = 1
    /\ sg["live_stop"].off = "raised"
    /\ \A k \in 1..Len(sg_log) : sg_log[k].by # "live_stop"
    /\ "hold" \in sg_alive


\* The worker is about to make a device call: it holds cam_lock for it, or
\* (the import worker's get-file) needs no lock.
AboutToCall(c) ==
    \/ oc[c].pc = "locked"
    \/ c = "import_worker" /\ oc[c].pc = "idle" /\ ~LockedCall(c)
                           /\ oc[c].calls < MaxPathCalls

\* C31: the capture cooldown applies only to the manual capture path: a
\* device call of the interval worker or of the import worker begins
\* whatever the time since the last manual capture, and no step of either
\* worker changes LAST_CAPTURE_TS.
C31_CooldownManualOnly ==
    [][\A c \in OtherCallers :
          /\ AboutToCall(c) => ENABLED (oc_call(c) \/ oc_get(c))
          /\ oc'[c] # oc[c] => LAST_CAPTURE_TS' = LAST_CAPTURE_TS]_vars

\* Both workers are in a device call less than MIN_CAPTURE_GAP after the
\* timestamp of a manual capture.
C31_Witness ==
    /\ stamps # << >>
    /\ LAST_CAPTURE_TS = stamps[Len(stamps)]
    /\ now - LAST_CAPTURE_TS < MIN_CAPTURE_GAP
    /\ oc["interval_worker"].pc = "calling"
    /\ oc["import_worker"].pc = "getting"
    /\ cq["r1"].pc = "done"


Refused(k) == sr'[k].refused > sr[k].refused

\* C32: a job start request refused because a job of the same kind is
\* running changes nothing: the job state with its counters, the
\* cancellation flag and the worker threads are as before, for the import
\* job and for the interval job.
C32_RefusedStartChangesNothing ==
    [][/\ Refused("import") =>
            /\ import_state.running
            /\ UNCHANGED <<import_state, import_cancel, iw>>
       /\ Refused("interval") =>
            /\ interval_state.running
            /\ UNCHANGED <<interval_state, ivw>>]_vars

\* A start request of each kind was refused in the middle of a job: the
\* import job has handled one file and its cancellation is pending, the
\* interval job has one capture left.
C32_Witness ==
    /\ sr["import"].refused = 1
    /\ sr["interval"].refused = 1
    /\ import_state.running
    /\ import_state.done = 1
    /\ import_cancel
    /\ interval_state.running
    /\ interval_state.remaining = 1
    /\ interval_state.total > 1


\* C35: a config write failure is never fatal. When persisting the hold wait
\* fails, the hold start still succeeds, with hold_wait updated in memory;
\* when persisting the import high-water mark fails, the import job still
\* finishes with running = false and no crash error.
C35_WriteFailureNotFatal ==
    /\ hw_last.saved = "failed" =>
          /\ hw_last.ret
          /\ hw_last.spawned
          /\ hw_hold_wait = clamp(hw_last.asked)
    /\ \A w \in ImportWorkers :
          (iw[w].pc = "done" /\ iw[w].saved = "failed" /\ iw[w].undisturbed) =>
              /\ ~import_state.running
              /\ import_state.finished
              /\ import_state.last_error # "worker crashed"

\* Both writes failed: the hold was started with a new wait that is in
\* memory and not in liveview.json, and the import job has ended with its
\* files imported and the high-water mark as before.
C35_Witness ==
    /\ hw_last.saved = "failed"
    /\ hw_last.asked = 12
    /\ hw_hold_wait = 12
    /\ hw_conf = DefaultHoldWait
    /\ hw_alive
    /\ iw["w1"].pc = "done"
    /\ iw["w1"].saved = "failed"
    /\ import_state.imported = JobFiles
    /\ imp_last_index = 0

\* C36: after a hold start that spawns a process, the wait passed to the
\* process and recorded in hold_wait lies in [5, 3600] seconds, whatever was
\* requested; a start that finds a hold running leaves hold_wait unchanged.
C36_WaitClamped ==
    /\ hw_proc # 0 => hw_proc \in 5..3600 /\ hw_hold_wait = hw_proc
    /\ hw_last.spawned => hw_hold_wait \in 5..3600
    /\ hw_last.found => hw_hold_wait = hw_last.before

\* A start asked for a negative wait and the process got the lower bound.
C36_Witness ==
    /\ hw_last.spawned
    /\ hw_last.asked = -1
    /\ hw_proc = 5
    /\ hw_hold_wait = 5
    /\ hw_alive


\* C37: once some status query has read a value for a cached field, a later
\* query in which every candidate key fails to read answers with the most
\* recently read value instead of an empty result, and the cache is only
\* overwritten by a value that was read and is not empty. The later query
\* is one that began with no other query in progress and during which no
\* other query read the field.
C37_LastKnownGood ==
    [][/\ \A t \in StatusThreads :
             (/\ scq[t].pc = "fallback"
              /\ scq'[t].pc = "done"
              /\ scq[t].alone
              /\ scq[t].seen # None
              /\ sc_last_read = scq[t].seen) =>
                 scq'[t].ret = scq[t].seen
       /\ last_status_cache' # last_status_cache =>
             /\ last_status_cache' \notin Unreadable
             /\ \E t \in StatusThreads : scq[t].pc = "store" /\ scq[t].v = last_status_cache']_vars

====
